---- MODULE Spec2Model ----
(***************************************************************************)
(* State-machine model of the two Telegram bots of this repository:        *)
(*   src/bot.py                    the protected batch-send / TOC bot      *)
(*   src/netlify/functions/bot.py  the anime/manga lookup bot              *)
(* Every handler is one atomic action: the Application processes updates   *)
(* one at a time, and a handler runs to completion before the next update  *)
(* is dispatched.                                                          *)
(***************************************************************************)
EXTENDS Integers, Sequences, FiniteSets, TLC

VARIABLES
    password,       \* contents of password.json (load_password / save_password)
    groups,         \* contents of groups.json: chat-id string -> display name
    authenticated,  \* context.user_data["authenticated"], per user
    files,          \* context.user_data["files"], per user
    current_index,  \* context.user_data["current_index"], per user
    target,         \* context.user_data["target"], per user
    bs_state,       \* bs_conv's state, per conversation key (chat, user)
    toc_state,      \* toc_conv's state, per conversation key (chat, user)
    last,           \* the handler that processed the latest update, and for whom
    reply,          \* what that handler replied to the user
    results,        \* the lines of that reply when it is a list (dispatch summary, TOC)
    dispatch_log,   \* the Bot API send calls of the latest dispatch, in call order
    typed,          \* the arguments of the latest /login or /changepassword, the kind
                    \* of the latest message given to bs_collect_file, else << >>
    expect,         \* history: names of the files collected before /done that no
                    \* label prompt has named yet, in collection order, per key
    chat_logs,      \* the global chat_logs dict: chat-id string -> list of entries
    logged,         \* history: every entry log_messages ever stored, per chat-id string
    lk_state,       \* lookup bot: conv_handler's state of the conversation
    query,          \* lookup bot: context.user_data['query']
    info,           \* lookup bot: context.user_data['info']
    images,         \* lookup bot: context.user_data['images']
    translate,      \* lookup bot: context.user_data['translate']
    season,         \* lookup bot: context.user_data['season'], << >> for None, <<n>> for n
    lk_last,        \* lookup bot: the handler that processed the latest update
    lk_answer,      \* lookup bot: the text of the latest update
    lk_reply,       \* lookup bot: the messages that handler sent, in order
    lk_prompts,     \* history: the prompts issued since the latest query, in order
    info0,          \* history: the match selected for the latest query
    refined,        \* history: what the lookup made for a season returned to the
                    \* latest handler, NoInfo if it made none or found nothing
    searched,       \* history: the text the latest handler passed to get_media_info,
                    \* << >> if it made no lookup
    tiers_empty,    \* history: whether the anime / manga search of the latest query
                    \* returned no result
    m_results,      \* select_best_match: argument results
    m_query,        \* select_best_match: argument query
    m_best,         \* select_best_match: returned item
    m_pc,           \* select_best_match: "call" before, "done" after the call
    p_fn,           \* pure helper under call: its name, "none" if there is none
    p_arg,          \* its argument
    p_out,          \* the value it returned
    p_pc            \* "call" before, "done" after the call

botvars == <<password, groups, authenticated, files, current_index, target,
             bs_state, toc_state, last, reply, results, dispatch_log, typed,
             expect>>
logvars == <<chat_logs, logged>>
lkvars == <<lk_state, query, info, images, translate, season, lk_last, lk_answer,
            lk_reply, lk_prompts, info0, refined, searched, tiers_empty>>
mvars == <<m_results, m_query, m_best, m_pc>>
pvars == <<p_fn, p_arg, p_out, p_pc>>
vars == <<botvars, logvars, lkvars, mvars, pvars>>

(***************************************************************************)
(* Bounds and input sets                                                   *)
(***************************************************************************)
MaxFiles == 2

\* Telegram user ids.  7 knows the password; 8 is an outsider who only ever
\* guesses passwords that are wrong at the time of the guess.
Users == {7, 8}
Insider == {7}

\* Conversation keys (chat id, user id).  A private chat has the id of its user;
\* -1005 is a supergroup.
GroupChats == {-1005}
Keys == {<<u, u>> : u \in Users} \cup (GroupChats \X Users)

\* chat.title and chat.username, << >> where the chat has none: the supergroup
\* has a title, the private chat of user 7 a username, that of user 8 neither
Title(c) == IF c \in GroupChats THEN <<"G", "r", "p">> ELSE << >>
Username(c) == IF c = 7 THEN <<"a", "l", "i", "c", "e">> ELSE << >>

\* chat.type
ChatType(c) == IF c \in GroupChats THEN "supergroup" ELSE "private"

\* chat.title if chat.title else (chat.username if chat.username else "Unnamed Chat")
ChatTitle(c) ==
    IF Title(c) # << >> THEN Title(c)
    ELSE IF Username(c) # << >> THEN Username(c)
    ELSE <<"U", "n", "n", "a", "m", "e", "d", " ", "C", "h", "a", "t">>

Passwords == {"admin", "s3cret"}

NoName == "<None>"
NoPrefix == "<None>"
NoTarget == <<>>

\* Incoming non-command messages.  kind "text" carries text, "sticker" carries
\* neither text nor a document, photo or video.
Attachments ==
    { [kind |-> "document", file_name |-> "a.pdf", duration |-> 0,  file_size |-> 512,  text |-> ""],
      [kind |-> "photo",    file_name |-> NoName,  duration |-> 0,  file_size |-> 2048, text |-> ""],
      [kind |-> "video",    file_name |-> NoName,  duration |-> 75, file_size |-> 4096, text |-> ""] }
Texts == {"-", "Ep", " Ep "}
TextMessages ==
    { [kind |-> "text", file_name |-> NoName, duration |-> 0, file_size |-> 0, text |-> t] : t \in Texts }
OtherMessages ==
    { [kind |-> "sticker", file_name |-> NoName, duration |-> 0, file_size |-> 0, text |-> ""] }
Messages == Attachments \cup TextMessages \cup OtherMessages

\* Outcome of the Bot API calls made for one file during dispatch.
Outcomes == {"ok", "file_fail", "link_fail"}

(***************************************************************************)
(* Strings that the code inspects character by character are sequences of  *)
(* one-character strings.                                                  *)
(***************************************************************************)
Digit(d) ==
    CASE d = 0 -> "0" [] d = 1 -> "1" [] d = 2 -> "2" [] d = 3 -> "3" [] d = 4 -> "4"
      [] d = 5 -> "5" [] d = 6 -> "6" [] d = 7 -> "7" [] d = 8 -> "8" [] d = 9 -> "9"

RECURSIVE NatToStr(_)
NatToStr(n) == IF n < 10 THEN <<Digit(n)>> ELSE Append(NatToStr(n \div 10), Digit(n % 10))

\* str(chat.id)
IntToStr(i) == IF i < 0 THEN <<"-">> \o NatToStr(0 - i) ELSE NatToStr(i)

IsDigit(c) == \E d \in 0..9 : Digit(d) = c
DigitVal(c) == CHOOSE d \in 0..9 : Digit(d) = c

RECURSIVE DigitsVal(_)
DigitsVal(s) ==
    IF s = << >> THEN 0
    ELSE 10 * DigitsVal(SubSeq(s, 1, Len(s) - 1)) + DigitVal(s[Len(s)])

\* s.startswith(p)
StartsWith(s, p) == Len(s) >= Len(p) /\ SubSeq(s, 1, Len(p)) = p

RESERVED_PREFIX == <<"-", "1", "0", "0">>

\* msg.text.strip() on the texts of the model
Strip(t) == IF t = " Ep " THEN "Ep" ELSE t

\* /addprivatechannel argument lists: [id, custom name] (<< >> = no name given)
ChannelArgs ==
    { <<>>,
      <<<<"5", "5">>, << >>>>,
      <<<<"-", "1", "0", "0", "8">>, << >>>>,
      <<<<"-", "1", "0", "0", "5">>, <<"M", "i", "n", "e">>>> }

(***************************************************************************)
(* Conversation states                                                     *)
(***************************************************************************)
END == "END"
BATCH_COLLECT == "BATCH_COLLECT"
BATCH_GET_PREFIX == "BATCH_GET_PREFIX"
BS_TARGET == "BS_TARGET"
TOC_CHOOSE == "TOC_CHOOSE"

NoGroups == [id \in {} |-> ""]

NoLogs == [id \in {} |-> << >>]

NoReply == [text |-> "", idx |-> 0, name |-> ""]
Reply(t) == [text |-> t, idx |-> 0, name |-> ""]
LabelPrompt(i, n) == [text |-> "label_prompt", idx |-> i, name |-> n]
DENIED == Reply("Access denied")

Handled(h, k) == [handler |-> h, chat |-> k[1], user |-> k[2]]

TypeOK ==
    /\ password \in Passwords
    /\ authenticated \in [Users -> BOOLEAN]
    /\ current_index \in [Users -> 0..(MaxFiles + 1)]
    /\ bs_state \in [Keys -> {END, BATCH_COLLECT, BATCH_GET_PREFIX, BS_TARGET}]
    /\ toc_state \in [Keys -> {END, TOC_CHOOSE}]
    /\ \A u \in Users : Len(files[u]) <= MaxFiles

InitBot ==
    /\ password = "admin"
    /\ groups = NoGroups
    /\ authenticated = [u \in Users |-> FALSE]
    /\ files = [u \in Users |-> << >>]
    /\ current_index = [u \in Users |-> 0]
    /\ target = [u \in Users |-> NoTarget]
    /\ bs_state = [k \in Keys |-> END]
    /\ toc_state = [k \in Keys |-> END]
    /\ last = [handler |-> "none", chat |-> 0, user |-> 0]
    /\ reply = NoReply
    /\ results = << >>
    /\ dispatch_log = << >>
    /\ typed = << >>
    /\ expect = [k \in Keys |-> << >>]
    /\ chat_logs = NoLogs
    /\ logged = NoLogs

\* an item of a search result without content, standing for None
NoItem == [mal_id |-> 0, title |-> << >>, synopsis |-> "<None>"]

\* the value standing for "no info": get_media_info's None, an unset user_data key
NoInfo == [media_type |-> "<None>", title |-> << >>, synopsis |-> "<None>",
           characters |-> << >>]

InitLookup ==
    /\ lk_state = END
    /\ query = << >>
    /\ info = NoInfo
    /\ images = FALSE
    /\ translate = FALSE
    /\ season = << >>
    /\ lk_last = "none"
    /\ lk_answer = << >>
    /\ lk_reply = << >>
    /\ lk_prompts = << >>
    /\ info0 = NoInfo
    /\ refined = NoInfo
    /\ searched = << >>
    /\ tiers_empty = [anime |-> FALSE, manga |-> FALSE]

InitMatchIdle ==
    /\ m_results = << >>
    /\ m_query = << >>
    /\ m_best = NoItem
    /\ m_pc = "idle"

InitPureIdle ==
    /\ p_fn = "none"
    /\ p_arg = << >>
    /\ p_out = << >>
    /\ p_pc = "idle"

Init == InitBot /\ InitLookup /\ InitMatchIdle /\ InitPureIdle

(***************************************************************************)
(* What every handler leaves behind for the observer                       *)
(***************************************************************************)
SaysAll(h, k, r, lines, calls, args) ==
    /\ last' = Handled(h, k)
    /\ reply' = r
    /\ results' = lines
    /\ dispatch_log' = calls
    /\ typed' = args

SaysLines(h, k, r, lines, calls) == SaysAll(h, k, r, lines, calls, << >>)

\* for the handlers whose input is recorded
SaysTo(h, k, r, args) == SaysAll(h, k, r, << >>, << >>, args)

Says(h, k, r) == SaysLines(h, k, r, << >>, << >>)

NoHistoryChange == UNCHANGED expect

\* the history of a conversation is dropped when the conversation ends or restarts
Forget(k) == expect' = [expect EXCEPT ![k] = << >>]

(***************************************************************************)
(* Persistent storage                                                      *)
(***************************************************************************)
load_password == password
save_password(new_pass) == password' = new_pass
load_groups == groups
save_groups(g) == groups' = g

WithGroupAlone(g, chat_id, title) == [id \in {chat_id} |-> title]

\* groups[chat_id] = title on the loaded dict
WithGroup(g, chat_id, title) ==
    [id \in (DOMAIN g) \cup {chat_id} |-> IF id = chat_id THEN title ELSE g[id]]

(***************************************************************************)
(* Authentication                                                          *)
(***************************************************************************)
RequireLoginOff(u) == TRUE

\* require_login: the wrapped handler runs only for an authenticated user
RequireLogin(u) == authenticated[u]

\* the wrapper's other branch: reply with the denial and return None, which
\* leaves the conversation state as it is
Deny(h, k) ==
    /\ Says(h, k, DENIED)
    /\ UNCHANGED <<password, groups, authenticated, files, current_index, target,
                   bs_state, toc_state>>
    /\ NoHistoryChange

\* the passwords a user may type: the outsider never types the stored one
Guesses(u) == IF u \in Insider THEN Passwords \cup {"guess"}
              ELSE (Passwords \cup {"guess"}) \ {password}

LoginSetsFalseOnFailure(u, ok) == [authenticated EXCEPT ![u] = ok]

\* what login leaves in user_data["authenticated"]: set on success, untouched otherwise
AfterLogin(u, ok) == IF ok THEN [authenticated EXCEPT ![u] = TRUE] ELSE authenticated

start(k) ==
    /\ Says("start", k, Reply("Welcome"))
    /\ UNCHANGED <<password, groups, authenticated, files, current_index, target,
                   bs_state, toc_state>>
    /\ NoHistoryChange

login(k, args) ==
    LET u == k[2] IN
    /\ IF args = << >>
       THEN /\ SaysTo("login", k, Reply("Usage: /login"), args)
            /\ UNCHANGED authenticated
       ELSE /\ authenticated' = AfterLogin(u, args[1] = load_password)
            /\ SaysTo("login", k, IF args[1] = load_password
                                   THEN Reply("Login successful!")
                                   ELSE Reply("Incorrect password."), args)
    /\ UNCHANGED <<password, groups, files, current_index, target, bs_state, toc_state>>
    /\ NoHistoryChange

OldPasswordIgnored(old_pass, stored) == TRUE

\* if old_pass != load_password(): ... return
OldPasswordMatches(old_pass, stored) == old_pass = stored

changepassword(k, args) ==
    LET u == k[2] IN
    IF ~RequireLogin(u) THEN Deny("changepassword", k)
    ELSE
    /\ IF Len(args) < 2
       THEN /\ SaysTo("changepassword", k, Reply("Usage: /changepassword"), args)
            /\ UNCHANGED password
       ELSE IF ~OldPasswordMatches(args[1], load_password)
       THEN /\ SaysTo("changepassword", k, Reply("Old password incorrect."), args)
            /\ UNCHANGED password
       ELSE /\ save_password(args[2])
            /\ SaysTo("changepassword", k, Reply("Password changed successfully."), args)
    /\ UNCHANGED <<groups, authenticated, files, current_index, target, bs_state, toc_state>>
    /\ NoHistoryChange

addgroup(k) ==
    LET u == k[2]
        chat_id == IntToStr(k[1])
        chat_title == ChatTitle(k[1])
    IN
    IF ~RequireLogin(u) THEN Deny("addgroup", k)
    ELSE
    /\ IF chat_id \in DOMAIN load_groups
       THEN /\ Says("addgroup", k, Reply("already added"))
            /\ UNCHANGED groups
       ELSE /\ save_groups(WithGroup(load_groups, chat_id, chat_title))
            /\ Says("addgroup", k, Reply("added successfully"))
    /\ UNCHANGED <<password, authenticated, files, current_index, target, bs_state, toc_state>>
    /\ NoHistoryChange

\* " ".join(args[1:]).strip() if len(args) > 1 else f"PrivateChannel_{channel_id}"
CustomName(args) ==
    IF args[2] # << >> THEN args[2] ELSE <<"P", "r", "i", "v", "a", "t", "e", "C", "h", "a", "n", "n", "e", "l", "_">> \o args[1]

addprivatechannel(k, args) ==
    LET u == k[2] IN
    IF ~RequireLogin(u) THEN Deny("addprivatechannel", k)
    ELSE
    /\ IF args = << >>
       THEN /\ Says("addprivatechannel", k, Reply("Usage: /addprivatechannel"))
            /\ UNCHANGED groups
       ELSE IF ~StartsWith(args[1], RESERVED_PREFIX)
       THEN /\ Says("addprivatechannel", k, Reply("Channel ID should start with -100."))
            /\ UNCHANGED groups
       ELSE IF args[1] \in DOMAIN load_groups
       THEN /\ Says("addprivatechannel", k, Reply("already added"))
            /\ UNCHANGED groups
       ELSE /\ save_groups(WithGroup(load_groups, args[1],
                                     CustomName(args)))
            /\ Says("addprivatechannel", k, Reply("added successfully"))
    /\ UNCHANGED <<password, authenticated, files, current_index, target, bs_state, toc_state>>
    /\ NoHistoryChange

listgroups(k) ==
    LET u == k[2] IN
    IF ~RequireLogin(u) THEN Deny("listgroups", k)
    ELSE
    /\ Says("listgroups", k, IF DOMAIN load_groups = {} THEN Reply("No groups available.")
                             ELSE Reply("Available Groups"))
    /\ UNCHANGED <<password, groups, authenticated, files, current_index, target,
                   bs_state, toc_state>>
    /\ NoHistoryChange

(***************************************************************************)
(* /toc conversation                                                       *)
(***************************************************************************)
toc_command(k) ==
    LET u == k[2] IN
    IF ~RequireLogin(u) THEN Deny("toc_command", k)
    ELSE
    /\ IF DOMAIN load_groups = {}
       THEN /\ Says("toc_command", k, Reply("No groups available."))
            /\ toc_state' = [toc_state EXCEPT ![k] = END]
       ELSE /\ Says("toc_command", k, Reply("Select a group for TOC:"))
            /\ toc_state' = [toc_state EXCEPT ![k] = TOC_CHOOSE]
    /\ UNCHANGED <<password, groups, authenticated, files, current_index, target, bs_state>>
    /\ NoHistoryChange

(***************************************************************************)
(* /batchsend conversation                                                 *)
(***************************************************************************)
RAISED(e) == [text |-> "raised", idx |-> 0, name |-> e]

FileNames(fs) == [i \in 1..Len(fs) |-> fs[i].file_name]

batchsend_command(k) ==
    LET u == k[2] IN
    IF ~RequireLogin(u) THEN Deny("batchsend_command", k)
    ELSE
    /\ files' = [files EXCEPT ![u] = << >>]
    /\ bs_state' = [bs_state EXCEPT ![k] = BATCH_COLLECT]
    /\ Says("batchsend_command", k, Reply("Batch Send: Send files one by one."))
    /\ Forget(k)
    /\ UNCHANGED <<password, groups, authenticated, current_index, target, toc_state>>

CollectedFileLabelled(msg) ==
    [file_type  |-> msg.kind,
     file_name  |-> IF msg.file_name # NoName THEN msg.file_name ELSE "video.mp4",
     file_size  |-> msg.file_size,
     additional |-> IF msg.kind = "video" THEN IntToStr(msg.duration) ELSE << >>,
     prefix     |-> IF msg.file_name # NoName THEN msg.file_name ELSE "video.mp4"]

\* the dict bs_collect_file appends for a message carrying a document, photo or video
CollectedFile(msg) ==
    [file_type  |-> msg.kind,
     file_name  |-> CASE msg.kind = "document" -> msg.file_name
                      [] msg.kind = "photo"    -> "photo.jpg"
                      [] msg.kind = "video"    -> IF msg.file_name # NoName
                                                  THEN msg.file_name ELSE "video.mp4",
     file_size  |-> msg.file_size,
     additional |-> IF msg.kind = "video" THEN IntToStr(msg.duration) ELSE << >>,
     prefix     |-> NoPrefix]

PrependFile(fs, fdict) == <<fdict>> \o fs

\* context.user_data.setdefault("files", []).append({...})
AppendFile(fs, fdict) == Append(fs, fdict)

bs_collect_file(k, msg) ==
    LET u == k[2] IN
    IF ~RequireLogin(u) THEN Deny("bs_collect_file", k)
    ELSE
    /\ IF msg.kind \in {"document", "photo", "video"}
       THEN /\ files' = [files EXCEPT ![u] = AppendFile(@, CollectedFile(msg))]
            /\ SaysTo("bs_collect_file", k,
                      [text |-> "File received.", idx |-> Len(files[u]) + 1, name |-> ""],
                      <<msg.kind>>)
       ELSE /\ UNCHANGED files
            /\ SaysTo("bs_collect_file", k, Reply("Unsupported file type."), <<msg.kind>>)
    /\ bs_state' = [bs_state EXCEPT ![k] = BATCH_COLLECT]
    /\ UNCHANGED <<password, groups, authenticated, current_index, target, toc_state>>
    /\ NoHistoryChange

StartIndexStale(old) == old

\* context.user_data["current_index"] = 0
StartIndex(old) == 0

batch_done(k) ==
    LET u == k[2] IN
    IF ~RequireLogin(u) THEN Deny("batch_done", k)
    ELSE
    /\ IF files[u] = << >>
       THEN /\ Says("batch_done", k, Reply("No files received. Batch send cancelled."))
            /\ bs_state' = [bs_state EXCEPT ![k] = END]
            /\ UNCHANGED current_index
            /\ Forget(k)
       ELSE /\ current_index' = [current_index EXCEPT ![u] = StartIndex(@)]
            /\ Says("batch_done", k, LabelPrompt(1, files[u][1].file_name))
            /\ bs_state' = [bs_state EXCEPT ![k] = BATCH_GET_PREFIX]
            /\ expect' = [expect EXCEPT ![k] = Tail(FileNames(files[u]))]
    /\ UNCHANGED <<password, groups, authenticated, files, target, toc_state>>

\* the label bs_receive_prefix stores for a reply
PrefixFor(fdict, text) == IF text \in {"-", ""} THEN fdict.file_name ELSE text

bs_receive_prefix(k, msg) ==
    LET u == k[2]
        text == IF msg.text # "" THEN Strip(msg.text) ELSE ""
        idx == current_index[u]
        fs == files[u]
    IN
    IF ~RequireLogin(u) THEN Deny("bs_receive_prefix", k)
    ELSE IF idx >= Len(fs)
    THEN \* files[idx] raises IndexError before anything is written
         /\ Says("bs_receive_prefix", k, RAISED("IndexError"))
         /\ UNCHANGED <<password, groups, authenticated, files, current_index, target,
                        bs_state, toc_state>>
         /\ NoHistoryChange
    ELSE
    /\ files' = [files EXCEPT ![u][idx + 1].prefix = PrefixFor(fs[idx + 1], text)]
    /\ current_index' = [current_index EXCEPT ![u] = idx + 1]
    /\ IF idx + 1 < Len(fs)
       THEN /\ Says("bs_receive_prefix", k, LabelPrompt(idx + 2, fs[idx + 2].file_name))
            /\ bs_state' = [bs_state EXCEPT ![k] = BATCH_GET_PREFIX]
            /\ expect' = [expect EXCEPT ![k] = IF @ = << >> THEN @ ELSE Tail(@)]
       ELSE /\ Says("bs_receive_prefix", k, Reply("Batch Send: Select target group"))
            /\ bs_state' = [bs_state EXCEPT ![k] = BS_TARGET]
            /\ Forget(k)
    /\ UNCHANGED <<password, groups, authenticated, target, toc_state>>

(***************************************************************************)
(* Formatting of durations and file sizes (bot.py)                         *)
(***************************************************************************)
Pad2Unpadded(n) == IntToStr(n)

\* f"{n:02d}"
Pad2(n) == IF 0 <= n /\ n < 10 THEN <<"0">> \o IntToStr(n) ELSE IntToStr(n)

\* format_duration on an integer number of seconds (int(seconds) is that integer)
format_duration(seconds) ==
    LET h == seconds \div 3600
        m == (seconds % 3600) \div 60
        s == seconds % 60
    IN IF h > 0
       THEN Pad2(h) \o <<":">> \o Pad2(m) \o <<":">> \o Pad2(s)
       ELSE Pad2(m) \o <<":">> \o Pad2(s)

\* dur_str = format_duration(dur_raw) if dur_raw and dur_raw.isdigit() else ""
DurationOf(dur_raw) ==
    IF dur_raw # << >> /\ \A i \in 1..Len(dur_raw) : IsDigit(dur_raw[i])
    THEN format_duration(DigitsVal(dur_raw))
    ELSE << >>

KB == 1024

\* floor(x * 25 / e) for 0 <= x < 2^30, without any product above 2^31
Times25Div(x, e) ==
    IF e < 32768 \/ x < 32768 * 1024
    THEN (x * 25) \div e
    ELSE ((x \div 32768) * 25 + ((x % 32768) * 25) \div 32768) \div (e \div 32768)

\* round(100 * x / d) for d one of 1024, 1024^2, 1024^3 and 0 <= x < d: the
\* quotient is an exact binary fraction, and .2f rounds it half to even
Hundredths(x, d) ==
    LET twice == Times25Div(x, d \div 8)
        down == twice \div 2
        tie == x % (d \div 8) = 0
    IN IF twice % 2 = 0 THEN down
       ELSE IF tie /\ down % 2 = 0 THEN down
       ELSE down + 1

\* f"{size_bytes / d:.2f}"
TwoDecimals(size_bytes, d) ==
    LET total == (size_bytes \div d) * 100 + Hundredths(size_bytes % d, d)
    IN NatToStr(total \div 100) \o <<".">>
       \o <<Digit((total % 100) \div 10), Digit(total % 10)>>

UnitLowerEdgeExcluded(size_bytes) ==
    IF size_bytes <= KB THEN 0
    ELSE IF size_bytes <= KB * KB THEN 1
    ELSE IF size_bytes <= KB * KB * KB THEN 2
    ELSE 3

\* the branch taken: 0 for B, 1 for KB, 2 for MB, 3 for GB
Unit(size_bytes) ==
    IF size_bytes < KB THEN 0
    ELSE IF size_bytes < KB * KB THEN 1
    ELSE IF size_bytes < KB * KB * KB THEN 2
    ELSE 3

\* format_file_size; size is << >> for None and <<b>> for b bytes
format_file_size(size) ==
    IF size = << >> THEN <<"U", "n", "k", "n", "o", "w", "n">>
    ELSE LET size_bytes == size[1]
             unit == Unit(size_bytes)
         IN CASE unit = 0 -> IntToStr(size_bytes) \o <<" ", "B">>
              [] unit = 1 -> TwoDecimals(size_bytes, KB) \o <<" ", "K", "B">>
              [] unit = 2 -> TwoDecimals(size_bytes, KB * KB) \o <<" ", "M", "B">>
              [] OTHER    -> TwoDecimals(size_bytes, KB * KB * KB) \o <<" ", "G", "B">>

\* one Bot API send call made by the dispatch loop, and whether it succeeded
SendFile(i, fdict, ok) ==
    [call |-> "send_" \o fdict.file_type, idx |-> i, ok |-> ok, label |-> "", link |-> << >>,
     size |-> << >>, duration |-> << >>]
\* sent.chat.id: the integer id of the chat a message to chat_id=target went to
ChatIdOf(tgt) ==
    IF tgt # << >> /\ tgt[1] = "-" THEN 0 - DigitsVal(Tail(tgt)) ELSE DigitsVal(tgt)

\* link_cid = str(cid)[4:] if isinstance(cid, int) and str(cid).startswith("-100")
\*            else str(cid)
BsLinkCid(cid) ==
    IF StartsWith(IntToStr(cid), RESERVED_PREFIX)
    THEN SubSeq(IntToStr(cid), 5, Len(IntToStr(cid)))
    ELSE IntToStr(cid)

SendLink(i, fdict, ok, tgt) ==
    [call |-> "send_message", idx |-> i, ok |-> ok, label |-> fdict.prefix,
     link |-> BsLinkCid(ChatIdOf(tgt)),
     size |-> format_file_size(<<fdict.file_size>>),
     duration |-> DurationOf(fdict.additional)]

\* the calls of one loop iteration: the file, then (if that succeeded) its link message
CallsFor(i, fdict, o, tgt) ==
    IF o = "file_fail" THEN <<SendFile(i, fdict, FALSE)>>
    ELSE <<SendFile(i, fdict, TRUE), SendLink(i, fdict, o = "ok", tgt)>>

ResultLineFileOnly(i, o) == [idx |-> i, ok |-> (o # "file_fail")]

\* the line appended to results: by the try body's last statement, or by except
ResultLine(i, o) == [idx |-> i, ok |-> (o = "ok")]

NextItemAbort(i, o, n) == IF o = "ok" THEN i + 1 ELSE n + 1

\* the try/except sits inside the for loop: whatever the outcome, the loop goes on
NextItem(i, o, n) == i + 1

RECURSIVE DispatchLoop(_, _, _, _, _)
DispatchLoop(fs, outcomes, i, acc, tgt) ==
    IF i > Len(fs) THEN acc
    ELSE DispatchLoop(fs, outcomes, NextItem(i, outcomes[i], Len(fs)),
                      [results |-> Append(acc.results, ResultLine(i, outcomes[i])),
                       calls   |-> acc.calls \o CallsFor(i, fs[i], outcomes[i], tgt)],
                      tgt)

Dispatch(fs, outcomes, tgt) ==
    DispatchLoop(fs, outcomes, 1, [results |-> << >>, calls |-> << >>], tgt)

bs_select_target(k, tgt, outcomes) ==
    LET u == k[2]
        d == Dispatch(files[u], outcomes, tgt)
    IN
    IF ~RequireLogin(u) THEN Deny("bs_select_target", k)
    ELSE
    /\ target' = [target EXCEPT ![u] = tgt]
    /\ SaysLines("bs_select_target", k, Reply("Batch Send Completed:"), d.results, d.calls)
    /\ bs_state' = [bs_state EXCEPT ![k] = END]
    /\ UNCHANGED <<password, groups, authenticated, files, current_index, toc_state>>
    /\ Forget(k)

\* fallbacks=[CommandHandler("cancel", lambda u, c: ConversationHandler.END)]: the
\* callback is not a coroutine function.  A runtime that awaits its result raises
\* TypeError and keeps the state; one that takes the returned value ends the
\* conversation.  Both outcomes are possible.
cancel_fallback(k, raises) ==
    /\ IF toc_state[k] = TOC_CHOOSE
       THEN /\ toc_state' = [toc_state EXCEPT ![k] = IF raises THEN @ ELSE END]
            /\ UNCHANGED bs_state
       ELSE /\ bs_state' = [bs_state EXCEPT ![k] = IF raises THEN @ ELSE END]
            /\ UNCHANGED toc_state
    /\ Says("cancel", k, IF raises THEN RAISED("TypeError") ELSE NoReply)
    /\ UNCHANGED <<password, groups, authenticated, files, current_index, target>>
    /\ IF raises \/ toc_state[k] = TOC_CHOOSE THEN NoHistoryChange ELSE Forget(k)

(***************************************************************************)
(* TOC of a selected group                                                 *)
(***************************************************************************)
\* chat_logs.get(group_id, [])
LogOf(logs, id) == IF id \in DOMAIN logs THEN logs[id] ELSE << >>

\* the id without every leading character that occurs in the prefix
RECURSIVE TocLinkIdStripsChars(_)
TocLinkIdStripsChars(group_id) ==
    IF group_id # << >> /\ group_id[1] \in {"-", "1", "0"}
    THEN TocLinkIdStripsChars(Tail(group_id))
    ELSE group_id

\* link_id = group_id[4:] if group_id.startswith("-100") else group_id
TocLinkId(group_id) ==
    IF StartsWith(group_id, RESERVED_PREFIX) THEN SubSeq(group_id, 5, Len(group_id))
    ELSE group_id

TocLines(group_id, msgs) ==
    [i \in 1..Len(msgs) |->
        [message_id |-> msgs[i].message_id, snippet |-> msgs[i].snippet,
         link_id |-> TocLinkId(group_id)]]

toc_select_group(k, group_id) ==
    LET u == k[2]
        msgs == LogOf(chat_logs, group_id)
    IN
    IF ~RequireLogin(u) THEN Deny("toc_select_group", k)
    ELSE
    /\ IF msgs = << >>
       THEN Says("toc_select_group", k, Reply("No messages logged for this group."))
       ELSE SaysLines("toc_select_group", k, Reply("TOC"), TocLines(group_id, msgs), << >>)
    /\ toc_state' = [toc_state EXCEPT ![k] = END]
    /\ UNCHANGED <<password, groups, authenticated, files, current_index, target, bs_state>>
    /\ NoHistoryChange

(***************************************************************************)
(* The message log kept for the table of contents (bot.py, log_messages).  *)
(***************************************************************************)

LOG_CAP == 100
SNIPPET_LEN == 30

\* messages of the busiest chat, enough to pass LOG_CAP
MaxLogged == 102
\* messages of every other chat
MaxQuiet == 2

BusyChat == [id |-> -1005, type |-> "supergroup"]
LogChats ==
    { BusyChat,
      [id |-> -44, type |-> "group"],
      [id |-> 7,   type |-> "private"] }

LOGGED_TYPES == {"group", "supergroup", "channel"}

NON_TEXT == <<"N", "o", "n", "-", "t", "e", "x", "t">>

\* the text of the message with the given id: none, a short one, one longer
\* than a snippet
TextOf(message_id) ==
    CASE message_id % 3 = 0 -> << >>
      [] message_id % 3 = 1 -> <<"h", "i">>
      [] OTHER -> [i \in 1..(SNIPPET_LEN + 1) |-> IF i > SNIPPET_LEN THEN "!" ELSE "x"]

\* (msg.text or "")[:30] or "Non-text"
Snippet(text) ==
    LET head == SubSeq(text, 1, IF Len(text) < SNIPPET_LEN THEN Len(text) ELSE SNIPPET_LEN)
    IN IF head = << >> THEN NON_TEXT ELSE head

EntryOf(message_id, text) == [message_id |-> message_id, snippet |-> Snippet(text)]
Entry(message_id) == EntryOf(message_id, TextOf(message_id))

TrimKeepsOldest(log) == IF Len(log) > LOG_CAP THEN SubSeq(log, 1, LOG_CAP) ELSE log

\* if len(chat_logs[chat_id]) > 100: chat_logs[chat_id] = chat_logs[chat_id][-100:]
Trim(log) ==
    IF Len(log) > LOG_CAP THEN SubSeq(log, Len(log) - LOG_CAP + 1, Len(log)) ELSE log

Put(logs, id, log) == [x \in DOMAIN logs \cup {id} |-> IF x = id THEN log ELSE logs[x]]

log_messages(chat, message_id, text) ==
    LET chat_id == IntToStr(chat.id) IN
    /\ last' = [handler |-> "log_messages", chat |-> chat.id, user |-> 0]
    /\ IF chat.type \notin LOGGED_TYPES
       THEN UNCHANGED chat_logs
       ELSE chat_logs' = Put(chat_logs, chat_id,
                             Trim(Append(LogOf(chat_logs, chat_id), EntryOf(message_id, text))))

\* filters.ChatType.GROUPS | filters.ChatType.CHANNEL of the registration
LogFilter(chat) == chat.type \in {"group", "supergroup", "channel"}

(***************************************************************************)
(* Dispatch of updates to handlers: group 0 of the Application, in the      *)
(* order of add_handler; the first handler that accepts the update runs.   *)
(***************************************************************************)
Start(K) == \E k \in K : start(k) /\ UNCHANGED <<logvars, lkvars, mvars, pvars>>

Login(K, words) ==
    \E k \in K : \E args \in {<<p>> : p \in words \cap Guesses(k[2])} :
        login(k, args) /\ UNCHANGED <<logvars, lkvars, mvars, pvars>>

LoginUsage(K) == \E k \in K : login(k, << >>) /\ UNCHANGED <<logvars, lkvars, mvars, pvars>>

ChangePassword(K) ==
    \E k \in K :
      \E args \in {<< >>} \cup {<<o>> : o \in Guesses(k[2])}
                  \cup {<<o, n>> : o \in Guesses(k[2]), n \in Passwords} :
        changepassword(k, args) /\ UNCHANGED <<logvars, lkvars, mvars, pvars>>

AddGroup(K) == \E k \in K : addgroup(k) /\ UNCHANGED <<logvars, lkvars, mvars, pvars>>

AddPrivateChannel(K) ==
    \E k \in K : \E args \in ChannelArgs : addprivatechannel(k, args) /\ UNCHANGED <<logvars, lkvars, mvars, pvars>>

ListGroups(K) == \E k \in K : listgroups(k) /\ UNCHANGED <<logvars, lkvars, mvars, pvars>>

\* entry point of toc_conv; allow_reentry=True makes it match in every state
TocCommand(K) == \E k \in K : toc_command(k) /\ UNCHANGED <<logvars, lkvars, mvars, pvars>>

\* CallbackQueryHandler(pattern "^toc_group:") in state TOC_CHOOSE; the buttons
\* offered carry the registered ids
TocSelectGroup(K) ==
    \E k \in K : \E group_id \in DOMAIN groups :
        /\ toc_state[k] = TOC_CHOOSE
        /\ toc_select_group(k, group_id)
        /\ UNCHANGED <<logvars, lkvars, mvars, pvars>>

\* entry point of bs_conv; allow_reentry=True makes it match in every state
BatchsendCommand(K) == \E k \in K : batchsend_command(k) /\ UNCHANGED <<logvars, lkvars, mvars, pvars>>

\* MessageHandler(filters.ALL & ~filters.COMMAND) in state BATCH_COLLECT
BsCollectFile(K, msgs) ==
    \E k \in K : \E msg \in msgs :
        /\ bs_state[k] = BATCH_COLLECT
        /\ msg.kind \in {"document", "photo", "video"} => Len(files[k[2]]) < MaxFiles
        /\ bs_collect_file(k, msg)
        /\ UNCHANGED <<logvars, lkvars, mvars, pvars>>

\* CommandHandler("done") in state BATCH_COLLECT
BatchDone(K) ==
    \E k \in K : bs_state[k] = BATCH_COLLECT /\ batch_done(k) /\ UNCHANGED <<logvars, lkvars, mvars, pvars>>

\* MessageHandler(filters.TEXT & ~filters.COMMAND) in state BATCH_GET_PREFIX
BsReceivePrefix(K, msgs) ==
    \E k \in K : \E msg \in msgs \cap TextMessages :
        /\ bs_state[k] = BATCH_GET_PREFIX
        /\ bs_receive_prefix(k, msg)
        /\ UNCHANGED <<logvars, lkvars, mvars, pvars>>

\* CallbackQueryHandler(pattern "^bs_target:") in state BS_TARGET
BsSelectTarget(K) ==
    \E k \in K : \E tgt \in DOMAIN groups :
      \E outcomes \in [1..Len(files[k[2]]) -> Outcomes] :
        /\ bs_state[k] = BS_TARGET
        /\ bs_select_target(k, tgt, outcomes)
        /\ UNCHANGED <<logvars, lkvars, mvars, pvars>>

\* the characters of the texts of the model
TextChars(t) ==
    CASE t = "-" -> <<"-">>
      [] t = "Ep" -> <<"E", "p">>
      [] t = " Ep " -> <<" ", "E", "p", " ">>
      [] OTHER -> << >>

\* the state handlers of bs_conv that take a message that is not a command:
\* every such message while collecting, a text while labeling; toc_conv has
\* no handler for messages
TakenByConversation(k, msg) ==
    \/ bs_state[k] = BATCH_COLLECT
    \/ bs_state[k] = BATCH_GET_PREFIX /\ msg.kind = "text"

\* a message in a private chat that no conversation takes: the handler for
\* group and channel messages does not apply either, so nothing runs
Ignored(K, msgs) ==
    \E k \in K : \E msg \in msgs :
        /\ ~LogFilter([id |-> k[1], type |-> ChatType(k[1])])
        /\ ~TakenByConversation(k, msg)
        /\ Says("none", k, NoReply)
        /\ UNCHANGED <<password, groups, authenticated, files, current_index, target,
                       bs_state, toc_state>>
        /\ NoHistoryChange
        /\ UNCHANGED <<logvars, lkvars, mvars, pvars>>

\* messages of a group chat followed in the log next to the conversations
MaxGroupLogged == 1

\* a message in a group chat that no conversation takes reaches log_messages,
\* the last handler registered; its id is the next one of that chat
LogGroupMessage(K, msgs) ==
    \E k \in K : \E msg \in msgs :
        LET chat == [id |-> k[1], type |-> ChatType(k[1])]
            chat_id == IntToStr(k[1])
            n == Len(LogOf(logged, chat_id))
        IN
        /\ LogFilter(chat)
        /\ ~TakenByConversation(k, msg)
        /\ n < MaxGroupLogged
        /\ log_messages(chat, n + 1, TextChars(msg.text))
        /\ logged' = Put(logged, chat_id,
                         Append(LogOf(logged, chat_id), EntryOf(n + 1, TextChars(msg.text))))
        /\ reply' = NoReply
        /\ results' = << >>
        /\ dispatch_log' = << >>
        /\ typed' = << >>
        /\ UNCHANGED <<password, groups, authenticated, files, current_index, target,
                       bs_state, toc_state>>
        /\ NoHistoryChange
        /\ UNCHANGED <<lkvars, mvars, pvars>>

\* /cancel reaches a fallback of the first conversation handler that has a state
\* for the key: toc_conv is added before bs_conv
Cancel(K) ==
    \E k \in K : \E raises \in BOOLEAN :
        /\ toc_state[k] = TOC_CHOOSE \/ bs_state[k] # END
        /\ cancel_fallback(k, raises)
        /\ UNCHANGED <<logvars, lkvars, mvars, pvars>>

(***************************************************************************)
(* Spec: the batch-send conversation.  User 7 logs in, registers the       *)
(* supergroup, and runs /batchsend conversations in the private chat and   *)
(* in the supergroup.                                                      *)
(***************************************************************************)
BatchKeys == {<<7, 7>>, <<-1005, 7>>}
BatchMessages ==
    {m \in Messages : m.kind # "photo" /\ m.text # " Ep "}

Next ==
    \/ Login({<<7, 7>>}, {"admin"})
    \/ AddGroup({<<-1005, 7>>})
    \/ BatchsendCommand(BatchKeys)
    \/ BsCollectFile(BatchKeys, BatchMessages)
    \/ BatchDone(BatchKeys)
    \/ BsReceivePrefix(BatchKeys, BatchMessages)
    \/ BsSelectTarget(BatchKeys)
    \/ Cancel(BatchKeys)
    \/ Ignored(BatchKeys, BatchMessages)
    \/ LogGroupMessage(BatchKeys, BatchMessages)

Spec == Init /\ [][Next]_vars

(***************************************************************************)
(* SpecAuth: authentication and the protected commands.  User 7 knows the  *)
(* password, user 8 does not; each talks to the bot in a private chat.     *)
(***************************************************************************)
AuthKeys == {<<7, 7>>, <<8, 8>>}
AuthMessages ==
    {m \in Messages : m.kind \in {"photo", "sticker"} \/ m.text = " Ep "}

NextAuth ==
    \/ Start(AuthKeys)
    \/ Login(AuthKeys, Passwords \cup {"guess"})
    \/ LoginUsage(AuthKeys)
    \/ ChangePassword(AuthKeys)
    \/ AddGroup(AuthKeys)
    \/ AddPrivateChannel(AuthKeys)
    \/ ListGroups(AuthKeys)
    \/ TocCommand(AuthKeys)
    \/ TocSelectGroup(AuthKeys)
    \/ BatchsendCommand(AuthKeys)
    \/ BsCollectFile(AuthKeys, AuthMessages)
    \/ BatchDone(AuthKeys)
    \/ BsReceivePrefix(AuthKeys, AuthMessages)
    \/ BsSelectTarget(AuthKeys)
    \/ Cancel(AuthKeys)
    \/ Ignored(AuthKeys, AuthMessages)

SpecAuth == Init /\ [][NextAuth]_vars

(***************************************************************************)
(* Properties of the batch-send conversation (Spec)                        *)
(***************************************************************************)
KeyOf(l) == <<l.chat, l.user>>
TARGET_OFFER == Reply("Batch Send: Select target group")

\* a collected list without its labels: its length and the order of its elements
Items(fs) == [i \in 1..Len(fs) |-> [fs[i] EXCEPT !.prefix = NoPrefix]]

\* C1: in a session where N >= 1 files were collected before /done, the k-th label
\* prompt names the k-th collected file, and the destination choice is offered only
\* once all N collected files have been named, never earlier.  Stated on the label
\* step: a prompt names the next collected file not yet named, and the destination
\* is offered only when none is left.
C1_PromptsFollowCollection ==
    [][\A k \in Keys :
         (last'.handler = "bs_receive_prefix" /\ KeyOf(last') = k) =>
            /\ reply'.text = "label_prompt" =>
                  expect[k] # << >> /\ reply'.name = Head(expect[k])
            /\ reply' = TARGET_OFFER => expect[k] = << >>]_vars

FileCalls(calls) == SelectSeq(calls, LAMBDA c : c.call # "send_message")

\* C2: when a destination is chosen in a session holding N files, every one of the
\* N files is attempted, in order, the summary has exactly N outcome lines, line i
\* being the outcome of file i, whatever the per-file failures, and the conversation
\* ends.
C2_DispatchCoversEveryFile ==
    (last.handler = "bs_select_target" /\ reply # DENIED) =>
        LET n == Len(files[last.user]) IN
        /\ Len(results) = n
        /\ \A i \in 1..n : results[i].idx = i
        /\ Len(FileCalls(dispatch_log)) = n
        /\ \A i \in 1..n : FileCalls(dispatch_log)[i].idx = i
        /\ bs_state[KeyOf(last)] = END

\* C2 witness: a dispatch of two files whose first file failed and whose second
\* file was still attempted and delivered
C2_Witness ==
    /\ last.handler = "bs_select_target"
    /\ Len(files[last.user]) = 2
    /\ Len(results) = 2
    /\ ~results[1].ok
    /\ results[2].ok

\* C3 as stated: within a conversation the list only grows by appending while
\* Collecting, and from Labeling on no update of the conversation changes its
\* length or the order of its elements.
C3_FrozenAfterCollecting ==
    [][\A k \in Keys :
         KeyOf(last') = k =>
            LET old == files[k[2]]
                new == files'[k[2]]
            IN
            /\ bs_state[k] = BATCH_COLLECT =>
                  \/ new = old
                  \/ Len(new) = Len(old) + 1 /\ SubSeq(new, 1, Len(old)) = old
            /\ bs_state[k] \in {BATCH_GET_PREFIX, BS_TARGET} =>
                  Items(new) = Items(old)]_vars

\* C3 amended: a user's list changes its length or the order of its elements in
\* two ways only: an attachment handled in a conversation of the user that is in
\* Collecting appends one unlabeled entry at the end, and an accepted /batchsend
\* (entry or re-entry, whatever the state) empties it.
C3_ListChangesByAppendOrRestart ==
    [][\A u \in Users :
         LET old == files[u]
             new == files'[u]
         IN
         \/ Items(new) = Items(old)
         \/ /\ last'.handler = "batchsend_command"
            /\ last'.user = u
            /\ new = << >>
         \/ /\ last'.handler = "bs_collect_file"
            /\ last'.user = u
            /\ bs_state[KeyOf(last')] = BATCH_COLLECT
            /\ Len(new) = Len(old) + 1
            /\ SubSeq(new, 1, Len(old)) = old
            /\ new[Len(new)].prefix = NoPrefix]_vars

\* C3 witness: /batchsend accepted after labeling had begun: the list is empty again
\* and the conversation is back in Collecting
C3_Witness ==
    /\ last.handler = "batchsend_command"
    /\ reply # DENIED
    /\ files[last.user] = << >>
    /\ current_index[last.user] >= 1
    /\ bs_state[KeyOf(last)] = BATCH_COLLECT

\* C6: no step of one conversation changes another conversation's file list,
\* label index or state, and a labeling step always finds a file at its index.
C6_ConversationsIndependent ==
    [][/\ \A k1 \in Keys : \A k2 \in Keys \ {k1} :
            (KeyOf(last') = k1 /\ bs_state[k2] # END) =>
                /\ files'[k2[2]] = files[k2[2]]
                /\ current_index'[k2[2]] = current_index[k2[2]]
                /\ bs_state'[k2] = bs_state[k2]
       /\ last'.handler = "bs_receive_prefix" => reply' # RAISED("IndexError")]_vars

(***************************************************************************)
(* Properties of authentication (SpecAuth)                                 *)
(***************************************************************************)
\* C4: after a login attempt with a password that differs from the stored one, the
\* stored credential is unchanged and the user is unauthenticated, whatever the
\* user's status was before.
C4_FailedLoginLeavesUnauthenticated ==
    [][(last'.handler = "login" /\ reply' = Reply("Incorrect password.")) =>
          /\ password' = password
          /\ ~authenticated'[last'.user]]_vars

Protected ==
    {"changepassword", "addgroup", "addprivatechannel", "listgroups",
     "toc_command", "toc_select_group", "batchsend_command", "bs_collect_file",
     "batch_done", "bs_receive_prefix", "bs_select_target"}

\* C5: a protected command or conversation step of an unauthenticated user only
\* replies with the denial: registry, credential, the user's list and index, the
\* conversation states are unchanged and nothing is dispatched.
C5_UnauthenticatedIsOnlyDenied ==
    [][(last'.handler \in Protected /\ ~authenticated[last'.user]) =>
          /\ reply' = DENIED
          /\ results' = << >>
          /\ dispatch_log' = << >>
          /\ UNCHANGED <<groups, password, authenticated, files, current_index,
                         target, bs_state, toc_state>>]_vars

\* C5 witness: user 8 was denied /batchsend while user 7 is logged in, has a
\* registered group and a conversation of their own
C5_Witness ==
    /\ last = Handled("batchsend_command", <<8, 8>>)
    /\ reply = DENIED
    /\ authenticated[7]
    /\ ~authenticated[8]
    /\ DOMAIN groups # {}
    /\ bs_state[<<8, 8>>] = END

(***************************************************************************)
(* SpecLog: the message log by itself.                                     *)
(***************************************************************************)

\* a non-command message arrives in a group, supergroup or channel while no
\* conversation is active there; its id is the next one of that chat
LogMessages ==
    \E chat \in LogChats :
        LET chat_id == IntToStr(chat.id)
            n == Len(LogOf(logged, chat_id))
        IN
        /\ LogFilter(chat)
        /\ n < (IF chat = BusyChat THEN MaxLogged ELSE MaxQuiet)
        /\ log_messages(chat, n + 1, TextOf(n + 1))
        /\ logged' = Put(logged, chat_id, Append(LogOf(logged, chat_id), Entry(n + 1)))
        /\ UNCHANGED <<password, groups, authenticated, files, current_index, target,
                       bs_state, toc_state, reply, results, dispatch_log, typed, expect>>
        /\ UNCHANGED <<lkvars, mvars, pvars>>

\* the same in a private chat: the filter rejects the message and no handler runs
NotLogged ==
    \E chat \in LogChats :
        /\ ~LogFilter(chat)
        /\ last' = [handler |-> "none", chat |-> chat.id, user |-> chat.id]
        /\ UNCHANGED <<password, groups, authenticated, files, current_index, target,
                       bs_state, toc_state, reply, results, dispatch_log, typed, expect>>
        /\ UNCHANGED <<logvars, lkvars, mvars, pvars>>

NextLog ==
    \/ LogMessages
    \/ NotLogged

SpecLog == Init /\ [][NextLog]_vars

\* the last n elements of a sequence
LastN(seq, n) == SubSeq(seq, Len(seq) - n + 1, Len(seq))

LogIsRecentWindow ==
    /\ DOMAIN chat_logs = DOMAIN logged
    /\ \A id \in DOMAIN logged :
        LET n == Len(logged[id])
            m == IF n < LOG_CAP THEN n ELSE LOG_CAP
        IN /\ Len(chat_logs[id]) <= LOG_CAP
           /\ chat_logs[id] = LastN(logged[id], m)
    /\ \A chat \in LogChats :
        chat.type = "private" => IntToStr(chat.id) \notin DOMAIN chat_logs

OtherLogsUntouched ==
    \A id \in DOMAIN chat_logs \cup DOMAIN chat_logs' :
        id # IntToStr(last'.chat) => /\ id \in DOMAIN chat_logs
                                     /\ id \in DOMAIN chat_logs'
                                     /\ chat_logs'[id] = chat_logs[id]

\* C10: every chat's log is the most recent min(n, 100) of the n messages
\* logged for that chat, in arrival order, so never longer than 100; a step
\* that logs a message of one chat leaves every other chat's log as it was;
\* a private chat never gets a log.
C10_LogIsBoundedRecentWindow == [](LogIsRecentWindow) /\ [][OtherLogsUntouched]_vars

\* more than 100 messages were logged in one chat, whose log holds 100 of
\* them, another chat has a log too, and the latest message came from a
\* private chat, where no handler ran
C10_Witness ==
    /\ Len(LogOf(logged, IntToStr(BusyChat.id))) > LOG_CAP
    /\ Len(LogOf(chat_logs, IntToStr(BusyChat.id))) = LOG_CAP
    /\ LogOf(chat_logs, IntToStr(-44)) # << >>
    /\ last = [handler |-> "none", chat |-> 7, user |-> 7]

(***************************************************************************)
(* The lookup bot (netlify/functions/bot.py): best-match selection.        *)
(* Titles and queries are sequences of characters.                         *)
(***************************************************************************)

\* longest result list handed to select_best_match
MaxResults == 3

UPPERCASE == <<"A", "B", "C", "D", "E", "F", "G", "H", "I", "J", "K", "L", "M",
               "N", "O", "P", "Q", "R", "S", "T", "U", "V", "W", "X", "Y", "Z">>
LOWERCASE == <<"a", "b", "c", "d", "e", "f", "g", "h", "i", "j", "k", "l", "m",
               "n", "o", "p", "q", "r", "s", "t", "u", "v", "w", "x", "y", "z">>

LowerChar(c) ==
    IF \E i \in 1..Len(UPPERCASE) : UPPERCASE[i] = c
    THEN LOWERCASE[CHOOSE i \in 1..Len(UPPERCASE) : UPPERCASE[i] = c]
    ELSE c

\* str.lower()
Lower(s) == [i \in 1..Len(s) |-> LowerChar(s[i])]

\* q in t, for strings
Contains(t, q) == \E i \in 0..(Len(t) - Len(q)) : SubSeq(t, i + 1, i + Len(q)) = q

\* what the search service can return: items with a title, an id and a synopsis
MediaItems ==
    { [mal_id |-> 1, title |-> <<"x", "A", "B">>, synopsis |-> "syn-1"],
      [mal_id |-> 2, title |-> <<"A", "b">>,      synopsis |-> "syn-2"],
      [mal_id |-> 0, title |-> <<"c">>,           synopsis |-> "syn-3"] }

ResultLists(n) == UNION { [1..len -> MediaItems] : len \in 0..n }

MatchQueries == { <<"a", "B">>, <<"c">>, <<"z">> }

\* if title == query_lower or query_lower in title
Matches(item, query_lower) ==
    LET title == Lower(item.title)
    IN title = query_lower \/ Contains(title, query_lower)

\* for item in results: ... return item;  return results[0] if results else None
RECURSIVE FirstMatch(_, _, _)
FirstMatch(rs, query_lower, i) ==
    IF i > Len(rs)
    THEN IF rs # << >> THEN rs[1] ELSE NoItem
    ELSE IF Matches(rs[i], query_lower) THEN rs[i]
    ELSE FirstMatch(rs, query_lower, i + 1)

select_best_match(rs, q) == FirstMatch(rs, Lower(q), 1)

InitMatch ==
    /\ InitBot
    /\ InitLookup
    /\ InitPureIdle
    /\ m_results \in ResultLists(MaxResults)
    /\ m_query \in MatchQueries
    /\ m_best = NoItem
    /\ m_pc = "call"

SelectBestMatch ==
    /\ m_pc = "call"
    /\ m_best' = select_best_match(m_results, m_query)
    /\ m_pc' = "done"
    /\ UNCHANGED <<m_results, m_query, botvars, logvars, lkvars, pvars>>

NextMatch == SelectBestMatch

SpecMatch == InitMatch /\ [][NextMatch]_vars

Exact(item, q) == Lower(item.title) = Lower(q)
Holds(item, q) == Contains(Lower(item.title), Lower(q))
FirstWhere(rs, P(_)) ==
    rs[CHOOSE i \in 1..Len(rs) : P(rs[i]) /\ \A j \in 1..(i - 1) : ~P(rs[j])]

\* C9: the returned item is an exact match whenever the list has one, else
\* the first item whose title contains the query, else the first item; the
\* empty list gives no item.
C9_SelectionIsPrioritised ==
    m_pc = "done" =>
        LET IsExact(item) == Exact(item, m_query)
            IsHolding(item) == Holds(item, m_query)
        IN
        IF \E i \in 1..Len(m_results) : IsExact(m_results[i])
        THEN IsExact(m_best) /\ \E i \in 1..Len(m_results) : m_results[i] = m_best
        ELSE IF \E i \in 1..Len(m_results) : IsHolding(m_results[i])
        THEN m_best = FirstWhere(m_results, IsHolding)
        ELSE IF m_results # << >> THEN m_best = m_results[1]
        ELSE m_best = NoItem

\* what the loop does: the first item that equals or contains the query, else
\* the first item, else none
C9_FirstEqualOrContaining ==
    m_pc = "done" =>
        LET IsHolding(item) == Exact(item, m_query) \/ Holds(item, m_query)
        IN
        IF \E i \in 1..Len(m_results) : IsHolding(m_results[i])
        THEN m_best = FirstWhere(m_results, IsHolding)
        ELSE IF m_results # << >> THEN m_best = m_results[1]
        ELSE m_best = NoItem

\* an item containing the query was returned although a later item equals it
C9_Witness ==
    /\ m_pc = "done"
    /\ \E i \in 1..Len(m_results) : Exact(m_results[i], m_query)
    /\ ~Exact(m_best, m_query)
    /\ Holds(m_best, m_query)

(***************************************************************************)
(* The lookup bot (netlify/functions/bot.py): the conversation.            *)
(* One user in one chat; texts are sequences of characters.                *)
(***************************************************************************)

CONFIRM == "CONFIRM"
ASK_IMAGES == "ASK_IMAGES"
ASK_TRANSLATE == "ASK_TRANSLATE"
ASK_SEASON == "ASK_SEASON"

\* longest result list a search returns in the conversation
MaxTier == 1

LookupQueries == { <<"a", "B">>, <<"z">> }

SKIP == <<"s", "k", "i", "p">>
START_TEXT == <<"/", "s", "t", "a", "r", "t">>

Answers ==
    { <<"Y", "e", "s">>, <<"y">>, <<"n", "o">>, <<"S", "k", "i", "p">>,
      <<"2">>, <<"0">>, <<"/", "c", "a", "n", "c", "e", "l">> }

IsYesUnlessNo(answer) == answer # <<"n", "o">>

\* answer in ['yes', 'y'], answer being the lowered text
IsYes(answer) == answer \in { <<"y", "e", "s">>, <<"y">> }

RECURSIVE StripSpaces(_)
StripSpaces(s) ==
    IF s # << >> /\ s[1] = " " THEN StripSpaces(Tail(s))
    ELSE IF s # << >> /\ s[Len(s)] = " " THEN StripSpaces(SubSeq(s, 1, Len(s) - 1))
    ELSE s

ParseIntDefaultsToOne(s) ==
    IF s # << >> /\ \A i \in 1..Len(s) : IsDigit(s[i]) THEN <<DigitsVal(s)>> ELSE <<1>>

\* int(answer): <<n>>, or << >> where int raises ValueError (texts of blanks,
\* an optional sign and ASCII digits)
ParseInt(s) ==
    LET t == StripSpaces(s)
        signed == t # << >> /\ t[1] \in {"-", "+"}
        body == IF signed THEN Tail(t) ELSE t
    IN IF body # << >> /\ \A i \in 1..Len(body) : IsDigit(body[i])
       THEN << (IF signed /\ t[1] = "-" THEN 0 - DigitsVal(body) ELSE DigitsVal(body)) >>
       ELSE << >>

\* season = None if answer == 'skip', else int(answer), None on ValueError
SeasonOf(answer) == IF answer = SKIP THEN << >> ELSE ParseInt(answer)

RefinesAlways(s) == TRUE

\* if season:
NeedsRefine(s) == s # << >> /\ s[1] # 0

\* f"{season}"
SeasonStr(s) == IF s = << >> THEN <<"N", "o", "n", "e">> ELSE IntToStr(s[1])

\* f"{query} season {season}"
NewQuery(q, s) == q \o <<" ", "s", "e", "a", "s", "o", "n", " ">> \o SeasonStr(s)

\* the answers of the characters endpoint: (name, image url) pairs
CharLists ==
    { << >>,
      << [name |-> "Al", img |-> "http://al"], [name |-> "Bo", img |-> ""] >> }

\* what one call of get_media_info gets from the network: the two result
\* lists (the manga search runs only if the anime search gave nothing; a
\* status other than 200 is an empty list) and the characters
Worlds ==
    { [anime |-> a, manga |-> m, chars |-> c] :
        a \in ResultLists(MaxTier), m \in ResultLists(MaxTier), c \in CharLists }

Searches == { w \in Worlds : w.anime # << >> => w.manga = << >> }
NoSearch == [anime |-> << >>, manga |-> << >>, chars |-> << >>]

InfoAlways(best, rec) == rec

\* if not best: return None
InfoOrNone(best, rec) == IF best = NoItem THEN NoInfo ELSE rec

get_media_info(q, w) ==
    LET best_anime == IF w.anime # << >> THEN select_best_match(w.anime, q) ELSE NoItem
        best == IF best_anime # NoItem THEN best_anime
                ELSE IF w.manga # << >> THEN select_best_match(w.manga, q) ELSE NoItem
        media_type == IF best_anime # NoItem THEN "Anime" ELSE "Manga"
    IN InfoOrNone(best,
                  [media_type |-> media_type, title |-> best.title,
                   synopsis |-> best.synopsis,
                   characters |-> IF best.mal_id # 0 THEN w.chars ELSE << >>])

\* a message the bot sends: a text message or a photo with its caption
Msg(kind, text, body, translated, ref) ==
    [kind |-> kind, text |-> text, body |-> body, translated |-> translated, ref |-> ref]
Text(text) == Msg("text", text, NoInfo, FALSE, "")

NOT_FOUND == Text("Sorry, no media found for your query.")
FOUND(i) == Msg("text", "I found: {title}. Is that the anime/manga you meant?", i, FALSE, "")
ASK_FOR_IMAGES == Text("Do you want images?")
ASK_FOR_TRANSLATION == Text("Do you want to translate the synopsis to English?")
ASK_FOR_SEASON == Text("If the series has multiple seasons, enter the season number")
REFINE == Text("Okay, please refine your query.")
HELLO == Text("Hello!")

Handles(h, text) == lk_last' = h /\ lk_answer' = text
NoLookup == searched' = << >> /\ refined' = NoInfo

start_command(text) ==
    /\ Handles("start_command", text)
    /\ lk_reply' = <<HELLO>>
    /\ NoLookup
    /\ UNCHANGED <<lk_state, query, info, images, translate, season,
                   lk_prompts, info0, tiers_empty>>

media_query_handler(text, w, net_ok) ==
    LET found == get_media_info(text, w) IN
    /\ Handles("media_query_handler", text)
    /\ query' = text
    /\ searched' = text
    /\ refined' = NoInfo
    /\ UNCHANGED <<images, translate, season>>
    /\ IF ~net_ok
       THEN /\ lk_reply' = << >>
            /\ lk_prompts' = << >>
            /\ info0' = NoInfo
            /\ tiers_empty' = [anime |-> FALSE, manga |-> FALSE]
            /\ UNCHANGED <<lk_state, info>>
       ELSE /\ tiers_empty' = [anime |-> w.anime = << >>, manga |-> w.manga = << >>]
            /\ info0' = found
            /\ IF found = NoInfo
               THEN /\ lk_reply' = <<NOT_FOUND>>
                    /\ lk_prompts' = << >>
                    /\ lk_state' = END
                    /\ UNCHANGED info
               ELSE /\ info' = found
                    /\ lk_reply' = <<FOUND(found)>>
                    /\ lk_prompts' = <<CONFIRM>>
                    /\ lk_state' = CONFIRM

confirm_handler(text) ==
    LET answer == Lower(text) IN
    /\ Handles("confirm_handler", text)
    /\ IF IsYes(answer)
       THEN /\ lk_reply' = <<ASK_FOR_IMAGES>>
            /\ lk_prompts' = Append(lk_prompts, ASK_IMAGES)
            /\ lk_state' = ASK_IMAGES
       ELSE /\ lk_reply' = <<REFINE>>
            /\ lk_state' = END
            /\ UNCHANGED lk_prompts
    /\ NoLookup
    /\ UNCHANGED <<query, info, images, translate, season, info0, tiers_empty>>

ask_images_handler(text) ==
    LET answer == Lower(text) IN
    /\ Handles("ask_images_handler", text)
    /\ images' = IsYes(answer)
    /\ lk_reply' = <<ASK_FOR_TRANSLATION>>
    /\ lk_prompts' = Append(lk_prompts, ASK_TRANSLATE)
    /\ lk_state' = ASK_TRANSLATE
    /\ NoLookup
    /\ UNCHANGED <<query, info, translate, season, info0, tiers_empty>>

ask_translate_handler(text) ==
    LET answer == Lower(text) IN
    /\ Handles("ask_translate_handler", text)
    /\ translate' = IsYes(answer)
    /\ lk_reply' = <<ASK_FOR_SEASON>>
    /\ lk_prompts' = Append(lk_prompts, ASK_SEASON)
    /\ lk_state' = ASK_SEASON
    /\ NoLookup
    /\ UNCHANGED <<query, info, images, season, info0, tiers_empty>>

\* for char in info["characters"]: if char[1]: reply_photo(photo=char[1], caption=char[0])
RECURSIVE CharacterPhotos(_, _)
CharacterPhotos(chars, sent) ==
    IF chars = << >> THEN << >>
    ELSE (IF chars[1].img # "" /\ sent
          THEN <<Msg("photo", "character", NoInfo, FALSE, chars[1].name)>>
          ELSE << >>) \o CharacterPhotos(Tail(chars), sent)

\* the final block built from info, with the synopsis translated or not, sent
\* as the caption of a photo or, without images or when the photo fails, as text
FinalMessages(i, translated, with_images, photo_sent, chars_sent) ==
    IF with_images
    THEN <<Msg(IF photo_sent THEN "photo" ELSE "text", "final", i, translated, "")>>
         \o CharacterPhotos(i.characters, chars_sent)
    ELSE <<Msg("text", "final", i, translated, "")>>

ask_season_handler(text, w, net_ok, translated_ok, photo_sent, chars_sent) ==
    LET answer == Lower(text)
        s == SeasonOf(answer)
        new_info == get_media_info(NewQuery(query, s), w)
        final == IF NeedsRefine(s) /\ new_info # NoInfo THEN new_info ELSE info
    IN
    /\ Handles("ask_season_handler", text)
    /\ season' = s
    /\ searched' = IF NeedsRefine(s) THEN NewQuery(query, s) ELSE << >>
    /\ refined' = IF NeedsRefine(s) /\ net_ok THEN new_info ELSE NoInfo
    /\ UNCHANGED <<query, images, translate, lk_prompts, info0, tiers_empty>>
    /\ IF NeedsRefine(s) /\ ~net_ok
       THEN /\ lk_reply' = << >>
            /\ UNCHANGED <<lk_state, info>>
       ELSE /\ info' = final
            /\ lk_reply' = FinalMessages(final, translate /\ translated_ok, images,
                                         photo_sent, chars_sent)
            /\ lk_state' = END

\* the CommandHandler for /start is registered before the conversation
StartCommand ==
    /\ start_command(START_TEXT)
    /\ UNCHANGED <<botvars, logvars, mvars, pvars>>

\* entry point: a text that is not a command, outside a conversation
MediaQuery ==
    /\ lk_state = END
    /\ \E text \in LookupQueries :
           \/ \E w \in Searches : media_query_handler(text, w, TRUE)
           \/ media_query_handler(text, NoSearch, FALSE)
    /\ UNCHANGED <<botvars, logvars, mvars, pvars>>

\* the state handlers take every text, a command included
Confirm ==
    /\ lk_state = CONFIRM
    /\ \E text \in Answers : confirm_handler(text)
    /\ UNCHANGED <<botvars, logvars, mvars, pvars>>

AskImages ==
    /\ lk_state = ASK_IMAGES
    /\ \E text \in Answers : ask_images_handler(text)
    /\ UNCHANGED <<botvars, logvars, mvars, pvars>>

AskTranslate ==
    /\ lk_state = ASK_TRANSLATE
    /\ \E text \in Answers : ask_translate_handler(text)
    /\ UNCHANGED <<botvars, logvars, mvars, pvars>>

\* the outcomes that matter: of the translation if it was asked for, of the
\* photos if images were asked for, of the search if the answer leads to one
AskSeason ==
    /\ lk_state = ASK_SEASON
    /\ \E text \in Answers :
        \E w \in (IF NeedsRefine(SeasonOf(Lower(text))) THEN Searches ELSE {NoSearch}),
           net_ok \in (IF NeedsRefine(SeasonOf(Lower(text))) THEN BOOLEAN ELSE {TRUE}),
           translated_ok \in (IF translate THEN BOOLEAN ELSE {FALSE}),
           photo_sent \in (IF images THEN BOOLEAN ELSE {FALSE}),
           chars_sent \in (IF images THEN BOOLEAN ELSE {FALSE}) :
             ask_season_handler(text, w, net_ok, translated_ok, photo_sent, chars_sent)
    /\ UNCHANGED <<botvars, logvars, mvars, pvars>>

NextLookup ==
    \/ StartCommand
    \/ MediaQuery
    \/ Confirm
    \/ AskImages
    \/ AskTranslate
    \/ AskSeason

SpecLookup == Init /\ [][NextLookup]_vars

\* C7: while the latest query is one for which both searches returned nothing,
\* the conversation is ended and no prompt has been issued since that query;
\* the handler of that query answered with the 'not found' message only.
C7_NoResultEndsWithoutPrompts ==
    (tiers_empty.anime /\ tiers_empty.manga) =>
        /\ lk_state = END
        /\ lk_prompts = << >>
        /\ lk_last = "media_query_handler" => lk_reply = <<NOT_FOUND>>

\* a query was just handled for which both searches returned nothing
C7_Witness ==
    /\ lk_last = "media_query_handler"
    /\ tiers_empty.anime /\ tiers_empty.manga
    /\ lk_reply = <<NOT_FOUND>>
    /\ query \in LookupQueries

IsFinal(m) == m.text = "final"

\* C8: after the season prompt was answered with the skip token, the handler
\* of that answer has made no lookup, the conversation is ended, and the
\* stored result and the result delivered are the match selected for the
\* query, whatever the stored image and translation answers.
C8_SkipKeepsSelectedMatch ==
    (lk_last = "ask_season_handler" /\ Lower(lk_answer) = SKIP) =>
        /\ searched = << >>
        /\ lk_state = END
        /\ info = info0
        /\ info # NoInfo
        /\ lk_reply # << >>
        /\ IsFinal(lk_reply[1]) /\ lk_reply[1].body = info0
        /\ \A j \in 2..Len(lk_reply) : ~IsFinal(lk_reply[j])

\* the season prompt was just answered with the skip token, after images and
\* translation had both been asked for
C8_Witness ==
    /\ lk_last = "ask_season_handler"
    /\ Lower(lk_answer) = SKIP
    /\ images /\ translate
    /\ lk_state = END

\* the same, after images and translation had both been declined
C8_WitnessDeclined ==
    /\ lk_last = "ask_season_handler"
    /\ Lower(lk_answer) = SKIP
    /\ ~images /\ ~translate
    /\ lk_state = END

(***************************************************************************)
(* The finish signal of the collecting state (Spec)                        *)
(***************************************************************************)
NOTHING_COLLECTED == Reply("No files received. Batch send cancelled.")

\* a step in which batch_done ran for an authenticated user
DoneStep ==
    /\ last'.handler = "batch_done"
    /\ bs_state[KeyOf(last')] = BATCH_COLLECT
    /\ reply' # DENIED

\* C11: /done with an empty list answers 'nothing collected', ends the
\* conversation, sends nothing and leaves the list empty; /done with a
\* non-empty list moves to the labelling state with the index at the first
\* file and prompts for the label of that file.
C11_DoneEndsOrStartsLabeling ==
    [][DoneStep =>
        LET k == KeyOf(last')
            u == last'.user
        IN IF files[u] = << >>
           THEN /\ reply' = NOTHING_COLLECTED
                /\ bs_state'[k] = END
                /\ dispatch_log' = << >>
                /\ results' = << >>
                /\ files'[u] = << >>
           ELSE /\ bs_state'[k] = BATCH_GET_PREFIX
                /\ current_index'[u] = 0
                /\ reply' = [text |-> "label_prompt", idx |-> 1,
                             name |-> files[u][1].file_name]
                /\ files' = files]_vars

\* /done was just answered with 'nothing collected' and the conversation is over
C11_Witness ==
    /\ last.handler = "batch_done"
    /\ reply = NOTHING_COLLECTED
    /\ bs_state[KeyOf(last)] = END
    /\ files[last.user] = << >>

\* /done just moved a conversation with two files to the labelling state
C11_WitnessLabeling ==
    /\ last.handler = "batch_done"
    /\ bs_state[KeyOf(last)] = BATCH_GET_PREFIX
    /\ Len(files[last.user]) = MaxFiles
    /\ current_index[last.user] = 0

(***************************************************************************)
(* SpecLink: the id put into a deep link, by the table of contents         *)
(* (toc_select_group) and by the batch dispatch (bs_select_target), as     *)
(* functions of the destination id.                                        *)
(***************************************************************************)

\* ids -(1000 + MaxIdTail) .. 1000 + MaxIdTail: with and without the prefix
MaxIdTail == 9

LinkChatIds == (0 - (1000 + MaxIdTail))..(1000 + MaxIdTail) \cup {-1001005, -100100}

\* registered ids are strings; /addprivatechannel accepts one that is not a number
LinkGroupIds == {IntToStr(c) : c \in LinkChatIds} \cup {<<"-", "1", "0", "0", "x">>}

InitLink ==
    /\ InitBot
    /\ InitLookup
    /\ InitMatchIdle
    /\ \/ p_fn = "toc_link" /\ p_arg \in LinkGroupIds
       \/ p_fn = "bs_link" /\ p_arg \in LinkChatIds
    /\ p_out = << >>
    /\ p_pc = "call"

TocLink ==
    /\ p_fn = "toc_link" /\ p_pc = "call"
    /\ p_out' = TocLinkId(p_arg)
    /\ p_pc' = "done"
    /\ UNCHANGED <<p_fn, p_arg, botvars, logvars, lkvars, mvars>>

BsLink ==
    /\ p_fn = "bs_link" /\ p_pc = "call"
    /\ p_out' = BsLinkCid(p_arg)
    /\ p_pc' = "done"
    /\ UNCHANGED <<p_fn, p_arg, botvars, logvars, lkvars, mvars>>

NextLink == TocLink \/ BsLink

SpecLink == InitLink /\ [][NextLink]_vars

\* the destination id as text
LinkedId == IF p_fn = "bs_link" THEN IntToStr(p_arg) ELSE p_arg

\* C12: the id in a link is the destination id without its leading '-100' if
\* it has one, the destination id itself otherwise, in both kinds of link.
C12_LinkStripsReservedPrefixOnly ==
    (p_fn \in {"toc_link", "bs_link"} /\ p_pc = "done") =>
        IF Len(LinkedId) >= 4 /\ SubSeq(LinkedId, 1, 4) = <<"-", "1", "0", "0">>
        THEN <<"-", "1", "0", "0">> \o p_out = LinkedId
        ELSE p_out = LinkedId

\* a dispatch link for a destination whose id has the prefix twice
C12_Witness ==
    /\ p_fn = "bs_link" /\ p_pc = "done"
    /\ p_arg = -1001005
    /\ p_out = <<"1", "0", "0", "5">>

\* a table-of-contents link for a destination without the prefix
C12_WitnessVerbatim ==
    /\ p_fn = "toc_link" /\ p_pc = "done"
    /\ p_arg = <<"-", "1", "0">>
    /\ p_out = p_arg

(***************************************************************************)
(* SpecDuration: format_duration on non-negative integers                  *)
(***************************************************************************)

\* every duration up to this one, so past the first hour
MaxSeconds == 3700

DurationInputs == 0..MaxSeconds \cup {35999, 36000, 86399, 359999, 360000, 360061}

InitDuration ==
    /\ InitBot
    /\ InitLookup
    /\ InitMatchIdle
    /\ p_fn = "format_duration"
    /\ p_arg \in DurationInputs
    /\ p_out = << >>
    /\ p_pc = "call"

FormatDuration ==
    /\ p_fn = "format_duration" /\ p_pc = "call"
    /\ p_out' = format_duration(p_arg)
    /\ p_pc' = "done"
    /\ UNCHANGED <<p_fn, p_arg, botvars, logvars, lkvars, mvars>>

NextDuration == FormatDuration

SpecDuration == InitDuration /\ [][NextDuration]_vars

\* the two digits of a number below 100
TwoDigits(n) == <<Digit(n \div 10), Digit(n % 10)>>

\* C13: the text has no hour field exactly when s < 3600; minutes
\* (s mod 3600) div 60 and seconds s mod 60 are two digits each; the hour
\* field, when there is one, is s div 3600 with at least two digits.
C13_DurationFields ==
    (p_fn = "format_duration" /\ p_pc = "done") =>
        LET tail == TwoDigits((p_arg % 3600) \div 60) \o <<":">> \o TwoDigits(p_arg % 60)
            h == p_arg \div 3600
        IN /\ (Len(p_out) = 5) <=> (p_arg < 3600)
           /\ SubSeq(p_out, Len(p_out) - 4, Len(p_out)) = tail
           /\ p_arg >= 3600 =>
                p_out = (IF h < 10 THEN <<"0", Digit(h)>> ELSE NatToStr(h)) \o <<":">> \o tail

\* one hour, one minute and one second
C13_Witness ==
    /\ p_fn = "format_duration" /\ p_pc = "done"
    /\ p_arg = 3661
    /\ p_out = <<"0", "1", ":", "0", "1", ":", "0", "1">>

\* the last second before the first hour
C13_WitnessNoHours ==
    /\ p_fn = "format_duration" /\ p_pc = "done"
    /\ p_arg = 3599
    /\ p_out = <<"5", "9", ":", "5", "9">>

(***************************************************************************)
(* SpecSize: format_file_size on byte counts around the band edges         *)
(***************************************************************************)

\* how far around 0, 1024, 1024^2 and 1024^3 the byte counts go
SizeRadius == 300

SizeInputs ==
    {<< >>} \cup
    { <<b>> : b \in 0..SizeRadius
                    \cup (KB - SizeRadius)..(KB + SizeRadius)
                    \cup (KB * KB - SizeRadius)..(KB * KB + SizeRadius)
                    \cup (KB * KB * KB - SizeRadius)..(KB * KB * KB + SizeRadius)
                    \cup {1536, 1048575 + 1048576, 2147483647} }

InitSize ==
    /\ InitBot
    /\ InitLookup
    /\ InitMatchIdle
    /\ p_fn = "format_file_size"
    /\ p_arg \in SizeInputs
    /\ p_out = << >>
    /\ p_pc = "call"

FormatFileSize ==
    /\ p_fn = "format_file_size" /\ p_pc = "call"
    /\ p_out' = format_file_size(p_arg)
    /\ p_pc' = "done"
    /\ UNCHANGED <<p_fn, p_arg, botvars, logvars, lkvars, mvars>>

NextSize == FormatFileSize

SpecSize == InitSize /\ [][NextSize]_vars

\* text is digits, a point, two digits, a blank and the unit
HasTwoDecimals(text, unit) ==
    LET n == Len(text) IN
    /\ n >= 7
    /\ SubSeq(text, n - 2, n) = <<" ">> \o unit
    /\ IsDigit(text[n - 3]) /\ IsDigit(text[n - 4])
    /\ text[n - 5] = "."
    /\ \A i \in 1..(n - 6) : IsDigit(text[i])

\* C14: an unknown size gives 'Unknown'; b < 1024 gives 'b B'; b < 1024^2
\* gives KB, b < 1024^3 gives MB, anything else GB, each with exactly two
\* decimals, the value 1024, 1024^2 or 1024^3 itself being in the higher band.
C14_SizeBands ==
    (p_fn = "format_file_size" /\ p_pc = "done") =>
        IF p_arg = << >> THEN p_out = <<"U", "n", "k", "n", "o", "w", "n">>
        ELSE LET b == p_arg[1] IN
             IF b < 1024 THEN p_out = IntToStr(b) \o <<" ", "B">>
             ELSE IF b < 1048576 THEN HasTwoDecimals(p_out, <<"K", "B">>)
             ELSE IF b < 1073741824 THEN HasTwoDecimals(p_out, <<"M", "B">>)
             ELSE HasTwoDecimals(p_out, <<"G", "B">>)

\* exactly 1024^2 bytes are one megabyte
C14_Witness ==
    /\ p_fn = "format_file_size" /\ p_pc = "done"
    /\ p_arg = <<1048576>>
    /\ p_out = <<"1", ".", "0", "0", " ", "M", "B">>

\* a size that is not known
C14_WitnessUnknown ==
    /\ p_fn = "format_file_size" /\ p_pc = "done"
    /\ p_arg = << >>
    /\ p_out = <<"U", "n", "k", "n", "o", "w", "n">>

(***************************************************************************)
(* Labelling (Spec)                                                        *)
(***************************************************************************)

\* a step in which a text reply reached bs_receive_prefix
LabelStep ==
    /\ last'.handler = "bs_receive_prefix"
    /\ bs_state[KeyOf(last')] = BATCH_GET_PREFIX

\* the labels a reply can give to a file: its name, for the placeholder, or
\* the text of the reply
LabelsFor(fdict) ==
    {fdict.file_name} \cup ({Strip(m.text) : m \in TextMessages} \ {"-", ""})

\* the reply labels the file at the current index and nothing else, and the
\* index advances by one
LabelsCurrentFile ==
    LabelStep =>
        LET u == last'.user
            idx == current_index[u]
        IN /\ idx < Len(files[u])
           /\ current_index'[u] = idx + 1
           /\ Len(files'[u]) = Len(files[u])
           /\ \A i \in 1..Len(files[u]) :
                IF i = idx + 1
                THEN \E label \in LabelsFor(files[u][i]) :
                        files'[u][i] = [files[u][i] EXCEPT !.prefix = label]
                ELSE files'[u][i] = files[u][i]

\* a label, once given, stays until the list is emptied by a new /batchsend
LabelsStay ==
    \A u \in Users :
        \/ last'.handler = "batchsend_command" /\ files'[u] = << >>
        \/ \A i \in 1..Len(files[u]) :
              files[u][i].prefix # NoPrefix =>
                  i <= Len(files'[u]) /\ files'[u][i].prefix = files[u][i].prefix

\* a message no handler accepts changes no index, label or state
IgnoredChangesNothing ==
    (last'.handler = "none") =>
        /\ files' = files
        /\ current_index' = current_index
        /\ bs_state' = bs_state

\* C15: in the labelling state a text reply labels exactly the file at the
\* current index, with the file's name for '-' and with the reply otherwise,
\* and advances the index by one; a label once given never changes; a message
\* that is not text changes neither index nor labels nor state.
C15_LabelsAssignedOnceInOrder ==
    [][LabelsCurrentFile /\ LabelsStay /\ IgnoredChangesNothing]_vars

(***************************************************************************)
(* The stored credential (SpecAuth)                                        *)
(***************************************************************************)

\* C16: the stored password changes only in a step of /changepassword by an
\* authenticated user whose first argument is the stored password, and then
\* to the second argument; no other step changes it.
C16_PasswordChangesOnlyByOwner ==
    [][password' # password =>
          /\ last'.handler = "changepassword"
          /\ authenticated[last'.user]
          /\ Len(typed') >= 2
          /\ typed'[1] = password
          /\ typed'[2] = password']_vars

\* an authenticated user just changed the password from 'admin' to 's3cret'
C16_Witness ==
    /\ last.handler = "changepassword"
    /\ authenticated[last.user]
    /\ typed = <<"admin", "s3cret">>
    /\ password = "s3cret"
    /\ reply = Reply("Password changed successfully.")

\* an authenticated user just gave a wrong old password
C16_WitnessWrongOld ==
    /\ last.handler = "changepassword"
    /\ authenticated[last.user]
    /\ Len(typed) = 2 /\ typed[1] = "guess"
    /\ reply = Reply("Old password incorrect.")

(***************************************************************************)
(* Collecting (Spec)                                                       *)
(***************************************************************************)
UNSUPPORTED == Reply("Unsupported file type.")

\* a step in which bs_collect_file ran for an authenticated user
CollectStep ==
    /\ last'.handler = "bs_collect_file"
    /\ bs_state[KeyOf(last')] = BATCH_COLLECT
    /\ reply' # DENIED

\* C17: in the collecting state a message without document, photo or video
\* is answered with 'unsupported' and changes neither the list nor the state;
\* a message with one of them adds one entry, of that kind and without a
\* label, at the end of the list, and the state stays the collecting state.
C17_CollectAppendsOrRejects ==
    [][CollectStep =>
        LET k == KeyOf(last')
            u == last'.user
            n == Len(files[u])
        IN /\ bs_state'[k] = BATCH_COLLECT
           /\ IF typed'[1] \in {"document", "photo", "video"}
              THEN /\ Len(files'[u]) = n + 1
                   /\ SubSeq(files'[u], 1, n) = files[u]
                   /\ files'[u][n + 1].file_type = typed'[1]
                   /\ files'[u][n + 1].prefix = NoPrefix
                   /\ reply' # UNSUPPORTED
              ELSE /\ files' = files
                   /\ reply' = UNSUPPORTED]_vars

\* a sticker was just rejected while a file was already collected
C17_Witness ==
    /\ last.handler = "bs_collect_file"
    /\ typed = <<"sticker">>
    /\ reply = UNSUPPORTED
    /\ files[last.user] # << >>
    /\ bs_state[KeyOf(last)] = BATCH_COLLECT

\* a video was just added as the second file
C17_WitnessAppended ==
    /\ last.handler = "bs_collect_file"
    /\ typed = <<"video">>
    /\ Len(files[last.user]) = 2
    /\ files[last.user][2].prefix = NoPrefix

(***************************************************************************)
(* The season prompt (SpecLookup)                                          *)
(***************************************************************************)

\* a text of digits only
IsNumber(t) == t # << >> /\ \A i \in 1..Len(t) : IsDigit(t[i])

\* the latest update was a reply to the season prompt
SeasonReplied == lk_last = "ask_season_handler"

\* C18: after a reply to the season prompt that is neither a number nor the
\* skip token, the conversation is still at the season prompt, the prompt has
\* been sent again and no final result has been delivered.
C18_NonNumericSeasonReprompts ==
    (SeasonReplied /\ ~IsNumber(lk_answer) /\ Lower(lk_answer) # SKIP) =>
        /\ lk_state = ASK_SEASON
        /\ lk_reply = <<ASK_FOR_SEASON>>
        /\ \A j \in 1..Len(lk_reply) : ~IsFinal(lk_reply[j])

\* C18, as the handler behaves: such a reply is taken like the skip token: the
\* season stays unset, no lookup is made, and the conversation ends with the
\* final result built from the match of the query.
C18_NonNumericSeasonIsSkip ==
    (SeasonReplied /\ ~IsNumber(lk_answer) /\ Lower(lk_answer) # SKIP) =>
        /\ lk_state = END
        /\ season = << >>
        /\ searched = << >>
        /\ info = info0
        /\ lk_reply # << >> /\ IsFinal(lk_reply[1]) /\ lk_reply[1].body = info0

\* the season prompt was just answered with 'no'
C18_Witness ==
    /\ SeasonReplied
    /\ lk_answer = <<"n", "o">>
    /\ lk_state = END
    /\ season = << >>

\* the query a season reply asks for: the query, ' season ' and the number
SeasonQuery == query \o <<" ", "s", "e", "a", "s", "o", "n", " ">> \o lk_answer

\* the conversation is ended and the final result shows the stored match
DeliveredStored ==
    /\ lk_state = END
    /\ lk_reply # << >>
    /\ IsFinal(lk_reply[1]) /\ lk_reply[1].body = info

\* C19: after a numeric reply to the season prompt, 0 included, the lookup
\* has been made again for the query with the season appended; the stored
\* match is the refined one if that lookup found one and the match of the
\* query otherwise; the conversation is ended with the final result.
C19_NumericSeasonRefines ==
    (SeasonReplied /\ IsNumber(lk_answer)) =>
        /\ searched = SeasonQuery
        /\ info = (IF refined # NoInfo THEN refined ELSE info0)
        /\ DeliveredStored

\* the same for the numbers other than 0, when the lookup returns: what the
\* handler does
C19_NonZeroSeasonRefines ==
    (SeasonReplied /\ IsNumber(lk_answer) /\ lk_answer # <<"0">> /\ lk_reply # << >>) =>
        /\ searched = SeasonQuery
        /\ info = (IF refined # NoInfo THEN refined ELSE info0)
        /\ DeliveredStored

\* the season prompt was answered with 0 and no lookup was made
C19_ZeroIsNoSeason ==
    /\ SeasonReplied
    /\ lk_answer = <<"0">>
    /\ season = <<0>>
    /\ searched = << >>
    /\ lk_state = END

\* the season prompt was answered with 2 and the refined match replaced the
\* match of the query
C19_Refined ==
    /\ SeasonReplied
    /\ lk_answer = <<"2">>
    /\ refined # NoInfo /\ refined # info0
    /\ info = refined
    /\ lk_state = END

(***************************************************************************)
(* The order of the lookup conversation (SpecLookup)                       *)
(***************************************************************************)
\* a final result has been delivered by the latest handler
FinalDelivered == \E j \in 1..Len(lk_reply) : IsFinal(lk_reply[j])

\* the prompts of a session that got to its end, in order, each once
ALL_PROMPTS == <<CONFIRM, ASK_IMAGES, ASK_TRANSLATE, ASK_SEASON>>

PromptedInOrder ==
    /\ FinalDelivered => (lk_last = "ask_season_handler" /\ lk_prompts = ALL_PROMPTS)
    /\ \E n \in 0..Len(ALL_PROMPTS) : lk_prompts = SubSeq(ALL_PROMPTS, 1, n)
    /\ lk_state # END => lk_prompts[Len(lk_prompts)] = lk_state

\* what a reply does at the confirmation, image and translation prompts
RepliesAdvance ==
    LET yes == Lower(lk_answer') \in { <<"y", "e", "s">>, <<"y">> } IN
    /\ lk_last' = "confirm_handler" =>
          IF yes
          THEN /\ lk_state = CONFIRM /\ lk_state' = ASK_IMAGES
               /\ lk_reply' = <<ASK_FOR_IMAGES>>
          ELSE /\ lk_state = CONFIRM /\ lk_state' = END
               /\ lk_reply' = <<REFINE>>
               /\ lk_prompts' = lk_prompts
    /\ lk_last' = "ask_images_handler" =>
          /\ lk_state = ASK_IMAGES /\ lk_state' = ASK_TRANSLATE
          /\ images' = yes
          /\ lk_reply' = <<ASK_FOR_TRANSLATION>>
    /\ lk_last' = "ask_translate_handler" =>
          /\ lk_state = ASK_TRANSLATE /\ lk_state' = ASK_SEASON
          /\ translate' = yes
          /\ lk_reply' = <<ASK_FOR_SEASON>>
    /\ lk_state' # lk_state =>
          <<lk_state, lk_state'>> \in
              { <<END, CONFIRM>>, <<CONFIRM, ASK_IMAGES>>, <<CONFIRM, END>>,
                <<ASK_IMAGES, ASK_TRANSLATE>>, <<ASK_TRANSLATE, ASK_SEASON>>,
                <<ASK_SEASON, END>> }

\* C20: a final result is delivered only by the season step of a session
\* whose prompts were confirmation, images, translation and season, in that
\* order and once each; at the confirmation an affirmative reply leads to the
\* image prompt and any other reply ends the session with 'refine your
\* query'; at the image and translation prompts every reply stores whether
\* it is affirmative and leads to the next prompt.
C20_LookupIsLinear == [](PromptedInOrder) /\ [][RepliesAdvance]_vars

\* a final result was delivered after images were asked for and translation
\* was declined
C20_Witness ==
    /\ FinalDelivered
    /\ lk_prompts = ALL_PROMPTS
    /\ images /\ ~translate
    /\ lk_state = END

\* the confirmation was just declined
C20_WitnessDeclined ==
    /\ lk_last = "confirm_handler"
    /\ lk_reply = <<REFINE>>
    /\ lk_state = END
    /\ lk_prompts = <<CONFIRM>>

(***************************************************************************)
(* Cancellation in the lookup conversation.                                *)
(***************************************************************************)

CANCEL_TEXT == <<"/", "c", "a", "n", "c", "e", "l">>
CANCELLED == Text("Operation cancelled.")

\* a /cancel arrives while the conversation is in one of its four states
CancelReceived ==
    /\ lk_state \in {CONFIRM, ASK_IMAGES, ASK_TRANSLATE, ASK_SEASON}
    /\ lk_answer' = CANCEL_TEXT
    /\ lk_last' # "start_command"

\* C21: a cancel command received in Confirm, AskImages, AskTranslate or
\* AskSeason ends the session with the cancellation message only: no answer is
\* stored from it, no further prompt is issued and no final result is sent.
C21_CancelEndsSession ==
    [][CancelReceived =>
          /\ lk_state' = END
          /\ lk_reply' = <<CANCELLED>>
          /\ lk_prompts' = lk_prompts
          /\ UNCHANGED <<images, translate, season, info>>]_vars

\* what the registered handlers do with it: the handler of the current state
\* takes the command as the reply to its prompt
C21_CancelIsTakenAsAnswer ==
    [][CancelReceived =>
          /\ lk_last' = CASE lk_state = CONFIRM -> "confirm_handler"
                          [] lk_state = ASK_IMAGES -> "ask_images_handler"
                          [] lk_state = ASK_TRANSLATE -> "ask_translate_handler"
                          [] lk_state = ASK_SEASON -> "ask_season_handler"
          /\ lk_reply' # <<CANCELLED>>
          /\ lk_state = CONFIRM => lk_state' = END /\ lk_reply' = <<REFINE>>
          /\ lk_state = ASK_IMAGES => lk_state' = ASK_TRANSLATE /\ ~images'
          /\ lk_state = ASK_TRANSLATE => lk_state' = ASK_SEASON /\ ~translate'
          /\ lk_state = ASK_SEASON =>
                 /\ lk_state' = END /\ season' = << >>
                 /\ IsFinal(lk_reply'[1])]_vars

\* a /cancel sent at the season prompt was answered with the final result
C21_CancelDeliversResult ==
    /\ lk_last = "ask_season_handler"
    /\ lk_answer = CANCEL_TEXT
    /\ lk_state = END
    /\ IsFinal(lk_reply[1])

(***************************************************************************)
(* The group registry (SpecAuth)                                           *)
(***************************************************************************)

\* the identifiers the step adds to the registry
Registered == (DOMAIN groups') \ (DOMAIN groups)

\* C22: the registry only grows.  Every identifier keeps its name in every
\* step, and a step that changes the registry is an addgroup or an
\* addprivatechannel of an authenticated user that adds one identifier not
\* present before: the chat's own id for addgroup, an id that begins with
\* '-100' for addprivatechannel.
C22_RegistryOnlyGrows ==
    [][/\ DOMAIN groups \subseteq DOMAIN groups'
       /\ \A id \in DOMAIN groups : groups'[id] = groups[id]
       /\ groups' # groups =>
            /\ last'.handler \in {"addgroup", "addprivatechannel"}
            /\ authenticated[last'.user]
            /\ Cardinality(Registered) = 1
            /\ last'.handler = "addgroup" => Registered = {IntToStr(last'.chat)}
            /\ last'.handler = "addprivatechannel" =>
                   \A id \in Registered : StartsWith(id, RESERVED_PREFIX)]_vars

\* a private channel was just registered next to an entry made by addgroup
C22_Witness ==
    /\ last.handler = "addprivatechannel"
    /\ reply = Reply("added successfully")
    /\ Cardinality(DOMAIN groups) = 2
    /\ \E id \in DOMAIN groups : ~StartsWith(id, RESERVED_PREFIX)

\* an identifier already present was just registered again
C22_WitnessAlreadyAdded ==
    /\ last.handler \in {"addgroup", "addprivatechannel"}
    /\ reply = Reply("already added")
    /\ Cardinality(DOMAIN groups) = 2

(***************************************************************************)
(* Dispatch: the file, its link message and its outcome line (Spec)        *)
(***************************************************************************)

IsLinkCall(c) == c.call = "send_message"

\* the positions of the dispatch log holding the file call / the link call of file i
FileAt(i) == { p \in DOMAIN dispatch_log : ~IsLinkCall(dispatch_log[p]) /\ dispatch_log[p].idx = i }
LinkAt(i) == { p \in DOMAIN dispatch_log : IsLinkCall(dispatch_log[p]) /\ dispatch_log[p].idx = i }

\* C24: after a dispatch, the outcome line of file i reports success exactly
\* when the file call and the link call of file i both succeeded; a file whose
\* delivery failed has no link call; and the link call of file i comes directly
\* after the file call of file i, hence before file i+1 is attempted.
C24_SuccessIffFileAndLink ==
    (last.handler = "bs_select_target" /\ reply # DENIED) =>
        \A i \in 1..Len(results) :
            /\ Cardinality(FileAt(i)) = 1
            /\ results[i].ok <=>
                   /\ \E p \in FileAt(i) : dispatch_log[p].ok
                   /\ \E p \in LinkAt(i) : dispatch_log[p].ok
            /\ (\E p \in FileAt(i) : ~dispatch_log[p].ok) => LinkAt(i) = {}
            /\ Cardinality(LinkAt(i)) <= 1
            /\ \A p \in LinkAt(i) : p - 1 \in FileAt(i)
            /\ \A p \in FileAt(i), q \in FileAt(i + 1) : p < q
            /\ \A p \in LinkAt(i), q \in FileAt(i + 1) : p < q

\* a dispatch of two files: the first was delivered but its link message
\* failed, the second was delivered with its link
C24_Witness ==
    /\ last.handler = "bs_select_target"
    /\ Len(results) = 2
    /\ ~results[1].ok /\ results[2].ok
    /\ \E p \in FileAt(1) : dispatch_log[p].ok
    /\ \E p \in LinkAt(1) : ~dispatch_log[p].ok
    /\ \E p \in LinkAt(2) : dispatch_log[p].ok

\* a dispatch of two files: the delivery of the first failed and no link
\* message was sent for it
C24_WitnessFileFailed ==
    /\ last.handler = "bs_select_target"
    /\ Len(results) = 2
    /\ \E p \in FileAt(1) : ~dispatch_log[p].ok
    /\ LinkAt(1) = {}
    /\ LinkAt(2) # {}

(***************************************************************************)
(* The lookup bot: the text of the final reply (ask_season_handler).       *)
(* Texts are sequences of characters.                                      *)
(***************************************************************************)

MAX_CAPTION_LENGTH == 1024

ELLIPSIS == <<".", ".", ".">>

\* character c, n times
Rep(c, n) == [i \in 1..n |-> c]

\* for char in info["characters"]: reply_text += f"- {char[0]}\n"
RECURSIVE CharacterLines(_)
CharacterLines(chars) ==
    IF chars = << >> THEN << >>
    ELSE <<"-", " ">> \o chars[1] \o <<"\n">> \o CharacterLines(Tail(chars))

\* the f-string block built from info, followed by the character lines
ReplyText(i) ==
    <<"T", "y", "p", "e", ":", " ">> \o i.media_type \o <<"\n">>
    \o <<"T", "i", "t", "l", "e", ":", " ">> \o i.title \o <<"\n", "\n">>
    \o <<"S", "y", "n", "o", "p", "s", "i", "s", ":", " ">> \o i.synopsis \o <<"\n", "\n">>
    \o <<"G", "e", "n", "r", "e", "s", ":", " ">> \o i.genres \o <<"\n", "\n">>
    \o <<"D", "a", "t", "e", " ", "I", "n", "f", "o", ":", " ">> \o i.date_info \o <<"\n">>
    \o <<"B", "r", "o", "a", "d", "c", "a", "s", "t", ":", " ">> \o i.broadcast \o <<"\n", "\n">>
    \o <<"C", "h", "a", "r", "a", "c", "t", "e", "r", "s", ":", "\n">>
    \o CharacterLines(i.characters)

\* if len(reply_text) > MAX_CAPTION_LENGTH:
\*     reply_text = reply_text[: MAX_CAPTION_LENGTH - 3] + "..."
Truncate(text) ==
    IF Len(text) > MAX_CAPTION_LENGTH
    THEN SubSeq(text, 1, MAX_CAPTION_LENGTH - 3) \o ELLIPSIS
    ELSE text

\* the starts, from position from on, of the occurrences of old in text
Occurrences(text, old, from) ==
    { p \in from..(Len(text) - Len(old) + 1) : SubSeq(text, p, p + Len(old) - 1) = old }

\* str.replace with an empty old: new before every character and at the end
ReplaceEmpty(text, new) ==
    LET m == Len(new) IN
    [j \in 1..(Len(text) * (m + 1) + m) |->
        IF (j - 1) % (m + 1) < m THEN new[((j - 1) % (m + 1)) + 1]
        ELSE text[((j - 1) \div (m + 1)) + 1]]

\* str.replace: the occurrences of old that do not overlap, from the left
RECURSIVE ReplaceFrom(_, _, _, _)
ReplaceFrom(text, old, new, from) ==
    LET occ == Occurrences(text, old, from) IN
    IF occ = {} THEN SubSeq(text, from, Len(text))
    ELSE LET p == CHOOSE x \in occ : \A y \in occ : x <= y
         IN SubSeq(text, from, p - 1) \o new \o ReplaceFrom(text, old, new, p + Len(old))

Replace(text, old, new) ==
    IF old = << >> THEN ReplaceEmpty(text, new) ELSE ReplaceFrom(text, old, new, 1)

\* the text ask_season_handler delivers for info: the block, cut to the
\* maximum, and then, if translation was asked for and the translator did not
\* raise, with the synopsis replaced.  translation is << >> when it raised,
\* else <<text>>.
DeliveredText(i, want_translation, translation) ==
    LET reply_text == Truncate(ReplyText(i)) IN
    IF want_translation /\ translation # << >>
    THEN Replace(reply_text, i.synopsis, translation[1])
    ELSE reply_text

\* how far around the longest synopsis that fits the synopsis lengths go
EdgeSlack == 2
\* by how many characters a translation is longer or shorter than the synopsis
MaxGrowth == 2

\* the defaults of get_media_info
N_A == <<"N", "/", "A">>
NOT_AVAILABLE == <<"N", "o", "t", " ", "a", "v", "a", "i", "l", "a", "b", "l", "e">>

CaptionInfo(synopsis, chars) ==
    [media_type |-> <<"A", "n", "i", "m", "e">>, title |-> <<"T">>, synopsis |-> synopsis,
     genres |-> N_A, date_info |-> NOT_AVAILABLE, broadcast |-> NOT_AVAILABLE,
     characters |-> chars]

CaptionCharacters == { << >>, << <<"A", "l">> >> }

\* the length of the longest synopsis for which the block is not cut
FitLen(chars) == MAX_CAPTION_LENGTH - Len(ReplyText(CaptionInfo(<< >>, chars)))

\* synopses around that length, one so long that the cut falls inside it, and
\* the default 'N/A', which is also the default of the genres
Synopses(chars) ==
    { Rep("s", n) : n \in (FitLen(chars) - EdgeSlack)..(FitLen(chars) + EdgeSlack) }
    \cup { Rep("s", MAX_CAPTION_LENGTH), N_A }

Translations(synopsis) ==
    { << >> } \cup
    { << Rep("t", Len(synopsis) + d) >> : d \in (0 - MaxGrowth)..MaxGrowth }

\* without translation, and with it: the translator raising or answering
CaptionInputs ==
    UNION { UNION { { [info |-> CaptionInfo(s, c), translate |-> FALSE, translation |-> << >>] }
                    \cup { [info |-> CaptionInfo(s, c), translate |-> TRUE, translation |-> t] :
                             t \in Translations(s) } :
                    s \in Synopses(c) } :
            c \in CaptionCharacters }

InitCaption ==
    /\ InitBot
    /\ InitLookup
    /\ InitMatchIdle
    /\ p_fn = "reply_text"
    /\ p_arg \in CaptionInputs
    /\ p_out = << >>
    /\ p_pc = "call"

BuildReplyText ==
    /\ p_fn = "reply_text" /\ p_pc = "call"
    /\ p_out' = DeliveredText(p_arg.info, p_arg.translate, p_arg.translation)
    /\ p_pc' = "done"
    /\ UNCHANGED <<p_fn, p_arg, botvars, logvars, lkvars, mvars>>

NextCaption == BuildReplyText

SpecCaption == InitCaption /\ [][NextCaption]_vars

Built == p_fn = "reply_text" /\ p_pc = "done"
Translated == p_arg.translate /\ p_arg.translation # << >>
EndsWithEllipsis(text) ==
    Len(text) >= 3 /\ SubSeq(text, Len(text) - 2, Len(text)) = ELLIPSIS

\* C23: the delivered text is never longer than 1024 characters, with or
\* without translation; when the assembled block is longer than that, the
\* delivered text ends with the ellipsis; and when translation was asked for
\* and succeeded, the delivered text has the translated synopsis in place of
\* the original.
C23_DeliveredWithinLimit ==
    Built =>
        /\ Len(p_out) <= MAX_CAPTION_LENGTH
        /\ Len(ReplyText(p_arg.info)) > MAX_CAPTION_LENGTH => EndsWithEllipsis(p_out)
        /\ Translated =>
               /\ Contains(p_out, p_arg.translation[1])
               /\ ~Contains(p_out, p_arg.info.synopsis)

\* what holds: a text delivered without a translated synopsis is the block,
\* cut to 1024 characters with the ellipsis when it was longer; the cut is
\* made before the translation is put in, so a translated text is bounded
\* only by the cut text and the growth of each replaced occurrence
C23_CutPrecedesTranslation ==
    Built =>
        LET block == ReplyText(p_arg.info)
            cut == Truncate(block)
        IN
        /\ Len(cut) <= MAX_CAPTION_LENGTH
        /\ Len(block) > MAX_CAPTION_LENGTH =>
               Len(cut) = MAX_CAPTION_LENGTH /\ EndsWithEllipsis(cut)
        /\ Len(block) <= MAX_CAPTION_LENGTH => cut = block
        /\ ~Translated => p_out = cut
        /\ (Translated /\ ~Contains(cut, p_arg.info.synopsis)) => p_out = cut
        /\ (Translated /\ Contains(cut, p_arg.info.synopsis)) =>
               /\ Contains(p_out, p_arg.translation[1])
               /\ Len(p_out) - Len(cut) =
                    Cardinality(Occurrences(cut, p_arg.info.synopsis, 1))
                      * (Len(p_arg.translation[1]) - Len(p_arg.info.synopsis))

\* an uncut block of exactly 1024 characters whose translated synopsis is one
\* character longer: 1025 characters are delivered
C23_TooLong ==
    /\ Built
    /\ Translated
    /\ Len(ReplyText(p_arg.info)) = MAX_CAPTION_LENGTH
    /\ Len(p_out) = MAX_CAPTION_LENGTH + 1

\* a block cut inside the synopsis: the translation is not put in
C23_NotTranslated ==
    /\ Built
    /\ Translated
    /\ Len(ReplyText(p_arg.info)) > MAX_CAPTION_LENGTH
    /\ ~Contains(p_out, p_arg.translation[1])
    /\ p_out = Truncate(ReplyText(p_arg.info))

(***************************************************************************)
(* The shape of a batch session (Spec)                                     *)
(***************************************************************************)

Labeled(fdict) == fdict.prefix \notin {NoPrefix, NoName, ""}

\* C25: in every state of a batch session, while a conversation is Labeling
\* the index is in 0..(number of files - 1), the files before it are labeled
\* and the files from it on are not; while it is SelectingTarget the index is
\* the number of files, which is at least 1, and every file is labeled; and
\* a dispatch sends at least one file, each link message under its label.
C25_SessionShape ==
    /\ \A k \in BatchKeys :
         LET fs == files[k[2]]
             idx == current_index[k[2]]
         IN
         /\ bs_state[k] = BATCH_GET_PREFIX =>
                /\ 0 <= idx /\ idx < Len(fs)
                /\ \A j \in 1..Len(fs) : Labeled(fs[j]) <=> j <= idx
         /\ bs_state[k] = BS_TARGET =>
                /\ idx = Len(fs)
                /\ Len(fs) >= 1
                /\ \A j \in 1..Len(fs) : Labeled(fs[j])
    /\ (last.handler = "bs_select_target" /\ reply # DENIED) =>
           /\ Len(results) >= 1
           /\ \A p \in DOMAIN dispatch_log :
                  dispatch_log[p].call = "send_message" =>
                      dispatch_log[p].label \notin {NoPrefix, NoName, ""}

\* a conversation is SelectingTarget after two files were labeled, one of
\* them by the default
C25_TwoLabeled ==
    /\ bs_state[<<7, 7>>] = BS_TARGET
    /\ Len(files[7]) = 2
    /\ current_index[7] = 2
    /\ \A j \in 1..2 : Labeled(files[7][j])
    /\ files[7][1].prefix = files[7][1].file_name

\* a dispatch without any file: the list was emptied from the other chat
C25_EmptyDispatch ==
    /\ last.handler = "bs_select_target"
    /\ reply # DENIED
    /\ results = << >>

\* Document.file_name is optional in the Bot API: a document without a name,
\* collected and labeled in one conversation of user 7
UnnamedDocument ==
    [kind |-> "document", file_name |-> NoName, duration |-> 0, file_size |-> 512, text |-> ""]
UnnamedMessages == {UnnamedDocument} \cup {m \in Messages : m.kind = "video" \/ m.text = "-"}

NextUnnamed ==
    \/ Login({<<7, 7>>}, {"admin"})
    \/ AddGroup({<<7, 7>>})
    \/ BatchsendCommand({<<7, 7>>})
    \/ BsCollectFile({<<7, 7>>}, UnnamedMessages)
    \/ BatchDone({<<7, 7>>})
    \/ BsReceivePrefix({<<7, 7>>}, UnnamedMessages)
    \/ BsSelectTarget({<<7, 7>>})

SpecUnnamed == Init /\ [][NextUnnamed]_vars

\* the default label of a document without a name is no label: the
\* conversation is SelectingTarget and the file's prefix is None
C25_UnnamedDefaultLabel ==
    /\ bs_state[<<7, 7>>] = BS_TARGET
    /\ current_index[7] = Len(files[7])
    /\ \E j \in 1..Len(files[7]) :
           /\ files[7][j].file_type = "document"
           /\ files[7][j].file_name = NoName
           /\ files[7][j].prefix = NoName

\* the registry holds a private channel under its default name and the
\* private chat of user 7 under the user's username
C22_WitnessDefaultNames ==
    /\ <<"-", "1", "0", "0", "8">> \in DOMAIN groups
    /\ groups[<<"-", "1", "0", "0", "8">>] =
           <<"P", "r", "i", "v", "a", "t", "e", "C", "h", "a", "n", "n", "e", "l", "_",
             "-", "1", "0", "0", "8">>
    /\ <<"7">> \in DOMAIN groups
    /\ groups[<<"7">>] = <<"a", "l", "i", "c", "e">>

====
